---- MODULE Spec2Model ----
(***************************************************************************)
(* A state-machine model of the two notebooks of TurbuStat-in-LocalClouds: *)
(* data_preprocessing.ipynb ("pre") and                                    *)
(* turbustat_overview_localclouds.ipynb ("ana").  Each notebook is a       *)
(* Jupyter kernel with its own namespace; the two share the file system.   *)
(* A code cell is a sequence of statements; a cell runs statement by       *)
(* statement until it ends or a statement raises, which aborts the cell.   *)
(***************************************************************************)
EXTENDS Integers, Sequences, FiniteSets, TLC

VARIABLES
    ns,       \* ns[nb][name]: the object bound to name in notebook nb's kernel
    disk,     \* disk[<<root, rel>>]: the FITS file at that path, or NoFile
    pc,       \* <<nb, cell, k>>: the statement being run; Idle between cells
    done,     \* done[nb]: the number of leading cells of nb run at least once
    err,      \* err[nb]: the exception that ended nb's latest cell, "" if none
    reads,    \* the FITS loads that returned: [nb, path, line]
    writes,   \* the FITS writes that returned: [nb, path, line, obj]
    handled,  \* the exceptions a cell caught itself: [nb, line, exc]
    reruns,   \* how many times a cell was run again
    home,     \* the user's home directory, what "~" expands to
    missing   \* the python packages that are not installed

vars == <<ns, disk, pc, done, err, reads, writes, handled, reruns, home, missing>>

(***************************************************************************)
(* Bounds of the model.                                                    *)
(***************************************************************************)
\* The Ophiuchus and Perseus maps are GridH x GridW pixels.
GridH == 2
GridW == 3
\* How many times cells may be run again in a manual session.
MaxReruns == 2

(***************************************************************************)
(* Objects.  One record shape serves every python value the notebooks      *)
(* bind: modules, strings, cubes, projections, masks, slices, beams and    *)
(* the turbustat statistics.                                               *)
(***************************************************************************)
NoPath == <<"", "">>

NoObj ==
    [kind |-> "unbound", path |-> NoPath, loader |-> "", ops |-> <<>>,
     shape |-> <<>>, vlo |-> 0, vhi |-> 0, mask |-> {}, beam |-> 0,
     huge |-> FALSE, id |-> 0, items |-> <<>>, done |-> FALSE, s |-> "",
     opt |-> "", fit |-> <<>>, distance |-> <<>>]

NoFile == [NoObj EXCEPT !.kind = "nofile"]

Bound(o) == o.kind # "unbound"

Op(name, n, ref) == [name |-> name, n |-> n, ref |-> ref]

Abs(x) == IF x < 0 THEN -x ELSE x

\* The distance without the absolute value.
PSpecDistanceSigned(f1, f2) ==
    << f1[1] - f2[1], f1[2] * f1[2] + f2[2] * f2[2] >>

\* The power-spectrum distance of two fits <<beta, sigma>>,
\* |beta_1 - beta_2| / sqrt(sigma_1^2 + sigma_2^2), as the pair <<num, den>>
\* that stands for num / sqrt(den); with den = 0 numpy gives inf or nan.
PSpecDistance(f1, f2) ==
    << Abs(f1[1] - f2[1]), f1[2] * f1[2] + f2[2] * f2[2] >>

Min(a, b) == IF a < b THEN a ELSE b
Max(a, b) == IF a > b THEN a ELSE b
CeilDiv(a, b) == (a + b - 1) \div b

(***************************************************************************)
(* python slicing of one axis of length len by start:stop.                 *)
(***************************************************************************)
Clip(i, len) == Min(Max(i, 0), len)
SliceLen(start, stop, len) == Max(0, Clip(stop, len) - Clip(start, len))

(***************************************************************************)
(* Indexing with two slices, sl = <<y0, y1, x0, x1>>, applied to the axes  *)
(* first and first + 1 (counted from 1): obj[y0:y1, x0:x1] on a Projection *)
(* (first = 1), cube[:, y0:y1, x0:x1] on a cube (first = 2).  The other    *)
(* axes are kept whole.  The finite mask follows when the slices fall on   *)
(* the two spatial axes.                                                   *)
(***************************************************************************)
SliceAxes(o, sl, first, site) ==
    LET nd == Len(o.shape)
        y0 == Clip(sl[1], o.shape[first])
        x0 == Clip(sl[3], o.shape[first + 1])
        h == SliceLen(sl[1], sl[2], o.shape[first])
        w == SliceLen(sl[3], sl[4], o.shape[first + 1])
    IN  [o EXCEPT
           !.shape = [i \in 1..nd |-> IF i = first THEN h
                                      ELSE IF i = first + 1 THEN w
                                      ELSE o.shape[i]],
           !.mask = IF first = nd - 1
                      THEN {<<q[1] - y0, q[2] - x0>> :
                              q \in {r \in o.mask : /\ r[1] >= y0 /\ r[1] < y0 + h
                                                    /\ r[2] >= x0 /\ r[2] < x0 + w}}
                      ELSE o.mask,
           !.ops = Append(o.ops, Op("slice", sl, IF first = nd - 1 THEN "spatial" ELSE "other")),
           !.id = site]

(***************************************************************************)
(* cube[0]: the first plane of a cube, a 2D Projection.                    *)
(***************************************************************************)
Plane0(o, site) ==
    [o EXCEPT !.kind = "proj", !.shape = <<o.shape[2], o.shape[3]>>,
              !.id = site]

(***************************************************************************)
(* scipy.ndimage.label with the default (4-connected) structure, and       *)
(* scipy.ndimage.find_objects.  Labels are given in raster-scan order of   *)
(* each region's first pixel; find_objects returns one bounding box per    *)
(* label, in label order.                                                  *)
(***************************************************************************)
Adjacent(p, q) ==
    \/ p[1] = q[1] /\ (p[2] = q[2] + 1 \/ q[2] = p[2] + 1)
    \/ p[2] = q[2] /\ (p[1] = q[1] + 1 \/ q[1] = p[1] + 1)

RECURSIVE Grow(_, _)
Grow(S, M) ==
    LET T == S \cup {q \in M : \E p \in S : Adjacent(p, q)}
    IN  IF T = S THEN S ELSE Grow(T, M)

Raster(p, W) == p[1] * W + p[2]

FirstPixel(M, W) == CHOOSE p \in M : \A q \in M : Raster(p, W) <= Raster(q, W)

\* The regions of mask M, in label order.
RECURSIVE Label(_, _)
Label(M, W) ==
    IF M = {} THEN <<>>
    ELSE LET R == Grow({FirstPixel(M, W)}, M)
         IN  <<R>> \o Label(M \ R, W)

BBox(R) ==
    LET ys == {p[1] : p \in R}
        xs == {p[2] : p \in R}
        lo(S) == CHOOSE a \in S : \A b \in S : a <= b
        hi(S) == CHOOSE a \in S : \A b \in S : a >= b
    IN  <<lo(ys), hi(ys) + 1, lo(xs), hi(xs) + 1>>

FindObjects(regions) == [i \in 1..Len(regions) |-> BBox(regions[i])]

(***************************************************************************)
(* The spectral-cube transforms.  Each returns a new object; site is the   *)
(* source line of the statement that makes it.                             *)
(***************************************************************************)
\* obj.with_beam(beam): the same data with the beam recorded in the header.
WithBeam(o, bm, site) ==
    [o EXCEPT !.beam = bm.beam,
              !.ops = Append(o.ops, Op("with_beam", <<bm.beam, 0, 0, 0>>, "")),
              !.id = site]

\* cube.spectral_slab(lo, hi): the channels between lo and hi km/s.
SpectralSlab(o, lo, hi, site) ==
    LET nlo == Max(lo, o.vlo)
        nhi == Min(hi, o.vhi)
        nv == IF nhi > nlo /\ o.vhi > o.vlo
                THEN CeilDiv(o.shape[1] * (nhi - nlo), o.vhi - o.vlo)
                ELSE 0
    IN  [o EXCEPT !.vlo = nlo, !.vhi = Max(nhi, nlo),
                  !.shape = <<nv, o.shape[2], o.shape[3]>>,
                  !.ops = Append(o.ops, Op("spectral_slab", <<lo, hi, 0, 0>>, "")),
                  !.id = site]

\* cube.downsample_axis(axis=axis, factor=factor): averages groups of factor
\* pixels along axis (python axis numbers: 0 is the spectral axis).
DownsampleAxis(o, axis, factor, site) ==
    [o EXCEPT !.shape[axis + 1] = CeilDiv(o.shape[axis + 1], factor),
              !.mask = {},
              !.ops = Append(o.ops, Op("downsample_axis", <<axis, factor, 0, 0>>, "")),
              !.id = site]

\* obj.convolve_to(beam, allow_huge=True): smooths to the given beam.
ConvolveTo(o, bm, site) ==
    [o EXCEPT !.beam = bm.beam,
              !.ops = Append(o.ops, Op("convolve_to", <<bm.beam, 0, 0, 0>>, "")),
              !.id = site]

\* The 2D header of an object: of a Projection its own, of cube[0] the
\* cube's spatial axes.
Header2D(o) ==
    LET nd == Len(o.shape)
    IN  [shape |-> <<o.shape[nd - 1], o.shape[nd]>>, of |-> o]

\* proj.reproject(header): proj on the pixel grid of header.
Reproject(o, hdr, site) ==
    [o EXCEPT !.shape = hdr.shape,
              !.mask = {},
              !.ops = Append(o.ops, Op("reproject", <<hdr.shape[1], hdr.shape[2], 0, 0>>,
                                      hdr.of.path[2])),
              !.id = site]

\* What a FITS file holds of an object written to it.
AsFile(o) == [o EXCEPT !.kind = "file", !.huge = FALSE, !.id = 0, !.done = FALSE]

\* The object a loader makes of the file f at path p.
Loaded(f, p, kind, loader, site) ==
    [f EXCEPT !.kind = kind, !.loader = loader, !.path = p, !.ops = <<>>,
              !.id = site]

(***************************************************************************)
(* The notebooks.  A statement is a record: the source line, the           *)
(* operation, the names it binds (tgt), every name it reads (uses), the    *)
(* object arguments a and b, a variable holding a path (pv) or a path      *)
(* relative to data_path (rel), numeric arguments n, a boolean argument    *)
(* (overwrite=, a leading ":" in an index, a trailing [0]), and string     *)
(* arguments s and opt.                                                    *)
(***************************************************************************)
Stmt(line, op, tgt, uses, a, b, pv, rel, n, flag, s, opt) ==
    [line |-> line, op |-> op, tgt |-> tgt, uses |-> uses, a |-> a, b |-> b,
     pv |-> pv, rel |-> rel, n |-> n, flag |-> flag, s |-> s, opt |-> opt]

\* turbustat_overview_localclouds.ipynb, one definition per code cell, named
\* by the source line of the cell's first statement.
AnaCell_102 ==
    << Stmt(103, "use", {}, {}, "", "", "", "", <<0, 0, 0, 0>>, FALSE, "", "") >>

AnaCell_112 ==
    << Stmt(112, "import", {"plt"}, {}, "", "", "", "", <<0, 0, 0, 0>>, FALSE, "matplotlib", ""),
       Stmt(113, "import", {"np"}, {}, "", "", "", "", <<0, 0, 0, 0>>, FALSE, "numpy", ""),
       Stmt(114, "import", {"u"}, {}, "", "", "", "", <<0, 0, 0, 0>>, FALSE, "astropy", ""),
       Stmt(120, "try_import", {"turbustat"}, {}, "", "", "", "", <<0, 0, 0, 0>>, FALSE, "turbustat", "") >>

AnaCell_148 ==
    << Stmt(148, "import", {"fits"}, {}, "", "", "", "", <<0, 0, 0, 0>>, FALSE, "astropy", ""),
       Stmt(149, "import", {"SpectralCube", "Projection"}, {}, "", "", "", "", <<0, 0, 0, 0>>, FALSE, "spectral_cube", ""),
       Stmt(150, "import", {"os"}, {}, "", "", "", "", <<0, 0, 0, 0>>, FALSE, "os", ""),
       Stmt(153, "expanduser", {"data_path"}, {"os"}, "", "", "", "", <<0, 0, 0, 0>>, FALSE, "~", "/storage/ISM_School_LocalClouds/"),
       Stmt(156, "join", {"cube_filename"}, {"os", "data_path"}, "", "", "", "Orion/CARMA_NRO_Orion_12co_smoothed46.fits", <<0, 0, 0, 0>>, FALSE, "", ""),
       Stmt(157, "join", {"moment0_filename"}, {"os", "data_path"}, "", "", "", "Orion/mom0_12co_pix_2_Tmb_smoothed46.fits", <<0, 0, 0, 0>>, FALSE, "", ""),
       Stmt(159, "fits_open", {"hdu"}, {"fits", "cube_filename"}, "", "", "cube_filename", "", <<0, 0, 0, 0>>, FALSE, "", ""),
       Stmt(162, "read", {"cube"}, {"SpectralCube", "cube_filename"}, "", "", "cube_filename", "", <<0, 0, 0, 0>>, FALSE, "", ""),
       Stmt(165, "from_hdu", {"proj"}, {"Projection", "fits", "moment0_filename"}, "", "", "moment0_filename", "", <<0, 0, 0, 0>>, FALSE, "", "") >>

AnaCell_182 ==
    << Stmt(182, "use", {}, {"hdu"}, "", "", "", "", <<0, 0, 0, 0>>, FALSE, "", "") >>

AnaCell_198 ==
    << Stmt(198, "use", {}, {"cube"}, "", "", "", "", <<0, 0, 0, 0>>, FALSE, "", "") >>

AnaCell_215 ==
    << Stmt(215, "use", {}, {"proj"}, "", "", "", "", <<0, 0, 0, 0>>, FALSE, "", "") >>

AnaCell_237 ==
    << Stmt(237, "use", {}, {"plt", "proj"}, "", "", "", "", <<0, 0, 0, 0>>, FALSE, "", "") >>

AnaCell_264 ==
    << Stmt(264, "import", {"PowerSpectrum"}, {}, "", "", "", "", <<0, 0, 0, 0>>, FALSE, "turbustat", ""),
       Stmt(267, "stat", {"pspec"}, {"PowerSpectrum", "proj"}, "proj", "", "", "", <<0, 0, 0, 0>>, FALSE, "PowerSpectrum", ""),
       Stmt(271, "run", {}, {"pspec"}, "pspec", "", "", "", <<0, 0, 0, 0>>, FALSE, "", "") >>

AnaCell_293 ==
    << Stmt(293, "import", {"VCA"}, {}, "", "", "", "", <<0, 0, 0, 0>>, FALSE, "turbustat", ""),
       Stmt(296, "stat", {"vca"}, {"VCA", "cube"}, "cube", "", "", "", <<0, 0, 0, 0>>, FALSE, "VCA", ""),
       Stmt(300, "run", {}, {"vca"}, "vca", "", "", "", <<0, 0, 0, 0>>, FALSE, "", "") >>

AnaCell_328 ==
    << Stmt(328, "stat", {"vca"}, {"VCA", "cube"}, "cube", "", "", "", <<0, 0, 0, 0>>, FALSE, "VCA", ""),
       Stmt(331, "run", {}, {"u", "vca"}, "vca", "", "", "", <<0, 0, 0, 0>>, FALSE, "", "") >>

\* The cell at line 353 loading the raw Ophiuchus map instead of the product.
AnaCell_353_Raw ==
    << Stmt(353, "from_hdu", {"oph_mom0"}, {"Projection", "fits", "os", "data_path"}, "", "", "", "orig/Ophiuchus/OphA_12coFCRAO_F_map.fits", <<0, 0, 0, 0>>, FALSE, "", ""),
       Stmt(355, "use", {}, {"oph_mom0"}, "", "", "", "", <<0, 0, 0, 0>>, FALSE, "", ""),
       Stmt(356, "use", {}, {"plt"}, "", "", "", "", <<0, 0, 0, 0>>, FALSE, "", "") >>

AnaCell_353 ==
    << Stmt(353, "from_hdu", {"oph_mom0"}, {"Projection", "fits", "os", "data_path"}, "", "", "", "Ophiuchus/OphA_12coFCRAO_F_map_sliced_withbeam.fits", <<0, 0, 0, 0>>, FALSE, "", ""),
       Stmt(355, "use", {}, {"oph_mom0"}, "", "", "", "", <<0, 0, 0, 0>>, FALSE, "", ""),
       Stmt(356, "use", {}, {"plt"}, "", "", "", "", <<0, 0, 0, 0>>, FALSE, "", "") >>

AnaCell_365 ==
    << Stmt(365, "import", {"PSpec_Distance"}, {}, "", "", "", "", <<0, 0, 0, 0>>, FALSE, "turbustat", ""),
       Stmt(367, "stat", {"pspec_dist_orion_oph"}, {"PSpec_Distance", "u", "proj", "oph_mom0"}, "proj", "oph_mom0", "", "", <<0, 0, 0, 0>>, FALSE, "PSpec_Distance", ""),
       Stmt(369, "run", {}, {"pspec_dist_orion_oph"}, "pspec_dist_orion_oph", "", "", "", <<0, 0, 0, 0>>, FALSE, "", "") >>

AnaCell_402 ==
    << Stmt(402, "attr", {}, {"pspec_dist_orion_oph"}, "pspec_dist_orion_oph", "", "", "", <<0, 0, 0, 0>>, FALSE, "distance", "") >>

AnaCell_444 ==
    << Stmt(444, "from_hdu", {"orion_mom0_12co"}, {"Projection", "fits", "os", "data_path"}, "", "", "", "Orion/mom0_12co_pix_2_Tmb.fits", <<0, 0, 0, 0>>, FALSE, "", "") >>

AnaCell_462 ==
    << Stmt(462, "read", {"orion_mom0_12co"}, {"SpectralCube", "os", "data_path"}, "", "", "", "Orion/mom0_12co_pix_2_Tmb.fits", <<0, 0, 0, 0>>, TRUE, "", "") >>

AnaCell_474 ==
    << Stmt(474, "use", {}, {"plt", "orion_mom0_12co", "np"}, "", "", "", "", <<0, 0, 0, 0>>, FALSE, "", ""),
       Stmt(477, "use", {}, {"plt"}, "", "", "", "", <<0, 0, 0, 0>>, FALSE, "", "") >>

AnaCell_503 ==
    << Stmt(503, "index", {"orion_mom0_12co_region1"}, {"orion_mom0_12co"}, "orion_mom0_12co", "", "", "", <<3000, 3500, 1300, 1800>>, FALSE, "", ""),
       Stmt(505, "use", {}, {"plt", "orion_mom0_12co_region1"}, "", "", "", "", <<0, 0, 0, 0>>, FALSE, "", ""),
       Stmt(508, "use", {}, {"plt"}, "", "", "", "", <<0, 0, 0, 0>>, FALSE, "", "") >>

AnaCell_520 ==
    << Stmt(520, "index", {"orion_mom0_12co_region2"}, {"orion_mom0_12co"}, "orion_mom0_12co", "", "", "", <<3750, 4250, 1800, 2300>>, FALSE, "", ""),
       Stmt(522, "use", {}, {"plt", "orion_mom0_12co_region2"}, "", "", "", "", <<0, 0, 0, 0>>, FALSE, "", ""),
       Stmt(525, "use", {}, {"plt"}, "", "", "", "", <<0, 0, 0, 0>>, FALSE, "", "") >>

\* The cell at line 542 with region 2 of the cube cut half a box away.
AnaCell_542_Shifted ==
    << Stmt(542, "import", {"SCF_Distance"}, {}, "", "", "", "", <<0, 0, 0, 0>>, FALSE, "turbustat", ""),
       Stmt(545, "read", {"orion_12co_cube"}, {"SpectralCube", "os", "data_path"}, "", "", "", "orig/Orion/CARMA_NRO_Orion_12co.fits", <<0, 0, 0, 0>>, FALSE, "", ""),
       Stmt(549, "index", {"orion_12co_cube_region1"}, {"orion_12co_cube"}, "orion_12co_cube", "", "", "", <<3000, 3500, 1300, 1800>>, TRUE, "", ""),
       Stmt(550, "index", {"orion_12co_cube_region2"}, {"orion_12co_cube"}, "orion_12co_cube", "", "", "", <<3250, 3750, 1500, 2000>>, TRUE, "", ""),
       Stmt(553, "stat", {"scf_dist"}, {"SCF_Distance", "orion_12co_cube_region1", "orion_12co_cube_region2"}, "orion_12co_cube_region1", "orion_12co_cube_region2", "", "", <<0, 0, 0, 0>>, FALSE, "SCF_Distance", ""),
       Stmt(556, "run", {}, {"scf_dist"}, "scf_dist", "", "", "", <<0, 0, 0, 0>>, FALSE, "", "") >>

AnaCell_542 ==
    << Stmt(542, "import", {"SCF_Distance"}, {}, "", "", "", "", <<0, 0, 0, 0>>, FALSE, "turbustat", ""),
       Stmt(545, "read", {"orion_12co_cube"}, {"SpectralCube", "os", "data_path"}, "", "", "", "orig/Orion/CARMA_NRO_Orion_12co.fits", <<0, 0, 0, 0>>, FALSE, "", ""),
       Stmt(549, "index", {"orion_12co_cube_region1"}, {"orion_12co_cube"}, "orion_12co_cube", "", "", "", <<3000, 3500, 1300, 1800>>, TRUE, "", ""),
       Stmt(550, "index", {"orion_12co_cube_region2"}, {"orion_12co_cube"}, "orion_12co_cube", "", "", "", <<3750, 4250, 1800, 2300>>, TRUE, "", ""),
       Stmt(553, "stat", {"scf_dist"}, {"SCF_Distance", "orion_12co_cube_region1", "orion_12co_cube_region2"}, "orion_12co_cube_region1", "orion_12co_cube_region2", "", "", <<0, 0, 0, 0>>, FALSE, "SCF_Distance", ""),
       Stmt(556, "run", {}, {"scf_dist"}, "scf_dist", "", "", "", <<0, 0, 0, 0>>, FALSE, "", "") >>

AnaCell_578 ==
    << Stmt(578, "attr", {}, {"scf_dist"}, "scf_dist", "", "", "", <<0, 0, 0, 0>>, FALSE, "distance", "") >>

AnaCell_618 ==
    << Stmt(618, "index", {"orion_mom0_12co_region1"}, {"orion_mom0_12co"}, "orion_mom0_12co", "", "", "", <<3000, 3500, 1300, 1800>>, FALSE, "", ""),
       Stmt(621, "from_hdu", {"orion_mom0_13co"}, {"Projection", "fits", "os", "data_path"}, "", "", "", "Orion/mom0_13co_pix_2_Tmb.fits", <<0, 0, 0, 0>>, FALSE, "", "") >>

AnaCell_637 ==
    << Stmt(637, "use", {}, {"orion_mom0_13co"}, "", "", "", "", <<0, 0, 0, 0>>, FALSE, "", ""),
       Stmt(638, "use", {}, {"orion_mom0_12co"}, "", "", "", "", <<0, 0, 0, 0>>, FALSE, "", "") >>

\* The cell at line 656 reprojecting onto the header of the whole 12CO map.
AnaCell_656_WholeMap ==
    << Stmt(656, "reproject", {"orion_mom0_13co_region1"}, {"orion_mom0_13co", "orion_mom0_12co"}, "orion_mom0_13co", "orion_mom0_12co", "", "", <<0, 0, 0, 0>>, FALSE, "", ""),
       Stmt(658, "use", {}, {"orion_mom0_13co_region1"}, "", "", "", "", <<0, 0, 0, 0>>, FALSE, "", ""),
       Stmt(659, "use", {}, {"orion_mom0_12co_region1"}, "", "", "", "", <<0, 0, 0, 0>>, FALSE, "", "") >>

AnaCell_656 ==
    << Stmt(656, "reproject", {"orion_mom0_13co_region1"}, {"orion_mom0_13co", "orion_mom0_12co_region1"}, "orion_mom0_13co", "orion_mom0_12co_region1", "", "", <<0, 0, 0, 0>>, FALSE, "", ""),
       Stmt(658, "use", {}, {"orion_mom0_13co_region1"}, "", "", "", "", <<0, 0, 0, 0>>, FALSE, "", ""),
       Stmt(659, "use", {}, {"orion_mom0_12co_region1"}, "", "", "", "", <<0, 0, 0, 0>>, FALSE, "", "") >>

AnaCell_686 ==
    << Stmt(686, "import", {"PDF_Distance"}, {}, "", "", "", "", <<0, 0, 0, 0>>, FALSE, "turbustat", ""),
       Stmt(688, "stat", {"pdf_dist"}, {"PDF_Distance", "orion_mom0_12co_region1", "orion_mom0_13co_region1"}, "orion_mom0_12co_region1", "orion_mom0_13co_region1", "", "", <<0, 0, 0, 0>>, FALSE, "PDF_Distance", ""),
       Stmt(690, "run", {}, {"pdf_dist"}, "pdf_dist", "", "", "", <<0, 0, 0, 0>>, FALSE, "", "") >>

AnaCell_718 ==
    << Stmt(718, "attr", {}, {"pdf_dist"}, "pdf_dist", "", "", "", <<0, 0, 0, 0>>, FALSE, "lognormal_distance", "") >>

AnaCell_734 ==
    << Stmt(734, "stat", {"pdf_dist"}, {"PDF_Distance", "orion_mom0_12co_region1", "orion_mom0_13co_region1"}, "orion_mom0_12co_region1", "orion_mom0_13co_region1", "", "", <<0, 0, 0, 0>>, FALSE, "PDF_Distance", "normalize_by_mean"),
       Stmt(736, "run", {}, {"pdf_dist"}, "pdf_dist", "", "", "", <<0, 0, 0, 0>>, FALSE, "", "") >>

AnaCell_752 ==
    << Stmt(752, "attr", {}, {"pdf_dist"}, "pdf_dist", "", "", "", <<0, 0, 0, 0>>, FALSE, "hellinger_distance", ""),
       Stmt(753, "attr", {}, {"pdf_dist"}, "pdf_dist", "", "", "", <<0, 0, 0, 0>>, FALSE, "ks_distance", ""),
       Stmt(754, "attr", {}, {"pdf_dist"}, "pdf_dist", "", "", "", <<0, 0, 0, 0>>, FALSE, "lognormal_distance", "") >>

AnaCells ==
    << AnaCell_102,
       AnaCell_112,
       AnaCell_148,
       AnaCell_182,
       AnaCell_198,
       AnaCell_215,
       AnaCell_237,
       AnaCell_264,
       AnaCell_293,
       AnaCell_328,
       AnaCell_353,
       AnaCell_365,
       AnaCell_402,
       AnaCell_444,
       AnaCell_462,
       AnaCell_474,
       AnaCell_503,
       AnaCell_520,
       AnaCell_542,
       AnaCell_578,
       AnaCell_618,
       AnaCell_637,
       AnaCell_656,
       AnaCell_686,
       AnaCell_718,
       AnaCell_734,
       AnaCell_752 >>

\* data_preprocessing.ipynb.
PreCell_840 ==
    << Stmt(840, "use", {}, {}, "", "", "", "", <<0, 0, 0, 0>>, FALSE, "", "") >>

PreCell_851 ==
    << Stmt(851, "import", {"os"}, {}, "", "", "", "", <<0, 0, 0, 0>>, FALSE, "os", ""),
       Stmt(852, "import", {"np"}, {}, "", "", "", "", <<0, 0, 0, 0>>, FALSE, "numpy", ""),
       Stmt(854, "str", {"data_path"}, {}, "", "", "", "", <<0, 0, 0, 0>>, FALSE, "/Users/ekoch/storage/ISM_School_LocalClouds/", "") >>

PreCell_871 ==
    << Stmt(871, "import", {"fits"}, {}, "", "", "", "", <<0, 0, 0, 0>>, FALSE, "astropy", ""),
       Stmt(872, "import", {"SpectralCube", "Projection"}, {}, "", "", "", "", <<0, 0, 0, 0>>, FALSE, "spectral_cube", ""),
       Stmt(874, "from_hdu", {"ophA_12co_mom0"}, {"Projection", "fits", "os", "data_path"}, "", "", "", "orig/Ophiuchus/OphA_12coFCRAO_F_map.fits", <<0, 0, 0, 0>>, FALSE, "", "") >>

PreCell_890 ==
    << Stmt(890, "use", {}, {"ophA_12co_mom0"}, "", "", "", "", <<0, 0, 0, 0>>, FALSE, "", "") >>

PreCell_908 ==
    << Stmt(908, "import", {"nd"}, {}, "", "", "", "", <<0, 0, 0, 0>>, FALSE, "scipy", ""),
       Stmt(910, "isfinite", {"finite_mask"}, {"np", "ophA_12co_mom0"}, "ophA_12co_mom0", "", "", "", <<0, 0, 0, 0>>, FALSE, "", ""),
       Stmt(912, "find_objects", {"list_of_slices"}, {"nd", "finite_mask"}, "finite_mask", "", "", "", <<0, 0, 0, 0>>, FALSE, "", ""),
       Stmt(915, "item", {"this_slice"}, {"list_of_slices"}, "list_of_slices", "", "", "", <<0, 0, 0, 0>>, FALSE, "", ""),
       Stmt(917, "use", {}, {"this_slice"}, "", "", "", "", <<0, 0, 0, 0>>, FALSE, "", "") >>

PreCell_933 ==
    << Stmt(933, "index_by", {"ophA_12co_mom0_sliced"}, {"ophA_12co_mom0", "this_slice"}, "ophA_12co_mom0", "this_slice", "", "", <<0, 0, 0, 0>>, FALSE, "", ""),
       Stmt(935, "use", {}, {"ophA_12co_mom0_sliced"}, "", "", "", "", <<0, 0, 0, 0>>, FALSE, "", ""),
       Stmt(937, "write", {}, {"ophA_12co_mom0_sliced", "os", "data_path"}, "ophA_12co_mom0_sliced", "", "", "Ophiuchus/OphA_12coFCRAO_F_map_sliced.fits", <<0, 0, 0, 0>>, FALSE, "", "") >>

PreCell_962 ==
    << Stmt(962, "read", {"cube_12co"}, {"SpectralCube", "os", "data_path"}, "", "", "", "orig/Ophiuchus/OphA_12coFCRAO_F_vxy.fits", <<0, 0, 0, 0>>, FALSE, "", ""),
       Stmt(966, "assert_shape", {}, {"ophA_12co_mom0", "cube_12co"}, "ophA_12co_mom0", "cube_12co", "", "", <<0, 0, 0, 0>>, FALSE, "", ""),
       Stmt(969, "index_by", {"cube_12co_sliced"}, {"cube_12co", "this_slice"}, "cube_12co", "this_slice", "", "", <<0, 0, 0, 0>>, TRUE, "", "") >>

\* The cell at line 982 cutting the 13CO cube before the slice is recomputed.
PreCell_982_StaleSlice ==
    << Stmt(982, "from_hdu", {"ophA_13co_mom0"}, {"Projection", "fits", "os", "data_path"}, "", "", "", "orig/Ophiuchus/OphA_13coFCRAO_F_map.fits", <<0, 0, 0, 0>>, FALSE, "", ""),
       Stmt(1000, "read", {"cube_13co"}, {"SpectralCube", "os", "data_path"}, "", "", "", "orig/Ophiuchus/OphA_13coFCRAO_F_vxy.fits", <<0, 0, 0, 0>>, FALSE, "", ""),
       Stmt(1004, "assert_shape", {}, {"ophA_13co_mom0", "cube_13co"}, "ophA_13co_mom0", "cube_13co", "", "", <<0, 0, 0, 0>>, FALSE, "", ""),
       Stmt(1007, "index_by", {"cube_13co_sliced"}, {"cube_13co", "this_slice"}, "cube_13co", "this_slice", "", "", <<0, 0, 0, 0>>, TRUE, "", ""),
       Stmt(984, "isfinite", {"finite_mask"}, {"np", "ophA_13co_mom0"}, "ophA_13co_mom0", "", "", "", <<0, 0, 0, 0>>, FALSE, "", ""),
       Stmt(986, "find_objects", {"list_of_slices"}, {"nd", "finite_mask"}, "finite_mask", "", "", "", <<0, 0, 0, 0>>, FALSE, "", ""),
       Stmt(989, "item", {"this_slice"}, {"list_of_slices"}, "list_of_slices", "", "", "", <<0, 0, 0, 0>>, FALSE, "", ""),
       Stmt(991, "index_by", {"ophA_13co_mom0_sliced"}, {"ophA_13co_mom0", "this_slice"}, "ophA_13co_mom0", "this_slice", "", "", <<0, 0, 0, 0>>, FALSE, "", ""),
       Stmt(993, "use", {}, {"ophA_13co_mom0_sliced"}, "", "", "", "", <<0, 0, 0, 0>>, FALSE, "", "") >>

PreCell_982 ==
    << Stmt(982, "from_hdu", {"ophA_13co_mom0"}, {"Projection", "fits", "os", "data_path"}, "", "", "", "orig/Ophiuchus/OphA_13coFCRAO_F_map.fits", <<0, 0, 0, 0>>, FALSE, "", ""),
       Stmt(984, "isfinite", {"finite_mask"}, {"np", "ophA_13co_mom0"}, "ophA_13co_mom0", "", "", "", <<0, 0, 0, 0>>, FALSE, "", ""),
       Stmt(986, "find_objects", {"list_of_slices"}, {"nd", "finite_mask"}, "finite_mask", "", "", "", <<0, 0, 0, 0>>, FALSE, "", ""),
       Stmt(989, "item", {"this_slice"}, {"list_of_slices"}, "list_of_slices", "", "", "", <<0, 0, 0, 0>>, FALSE, "", ""),
       Stmt(991, "index_by", {"ophA_13co_mom0_sliced"}, {"ophA_13co_mom0", "this_slice"}, "ophA_13co_mom0", "this_slice", "", "", <<0, 0, 0, 0>>, FALSE, "", ""),
       Stmt(993, "use", {}, {"ophA_13co_mom0_sliced"}, "", "", "", "", <<0, 0, 0, 0>>, FALSE, "", ""),
       Stmt(1000, "read", {"cube_13co"}, {"SpectralCube", "os", "data_path"}, "", "", "", "orig/Ophiuchus/OphA_13coFCRAO_F_vxy.fits", <<0, 0, 0, 0>>, FALSE, "", ""),
       Stmt(1004, "assert_shape", {}, {"ophA_13co_mom0", "cube_13co"}, "ophA_13co_mom0", "cube_13co", "", "", <<0, 0, 0, 0>>, FALSE, "", ""),
       Stmt(1007, "index_by", {"cube_13co_sliced"}, {"cube_13co", "this_slice"}, "cube_13co", "this_slice", "", "", <<0, 0, 0, 0>>, TRUE, "", "") >>

PreCell_1029 ==
    << Stmt(1029, "import", {"Beam"}, {}, "", "", "", "", <<0, 0, 0, 0>>, FALSE, "radio_beam", ""),
       Stmt(1030, "import", {"u"}, {}, "", "", "", "", <<0, 0, 0, 0>>, FALSE, "astropy", ""),
       Stmt(1032, "beam", {"complete_beam"}, {"Beam", "u"}, "", "", "", "", <<46, 0, 0, 0>>, FALSE, "", ""),
       Stmt(1034, "use", {}, {"complete_beam"}, "", "", "", "", <<0, 0, 0, 0>>, FALSE, "", "") >>

\* The cell at line 1050 writing the map it sliced, not the one with the beam.
PreCell_1050_NoBeam ==
    << Stmt(1050, "with_beam", {"ophA_12co_mom0_sliced_wbeam"}, {"ophA_12co_mom0_sliced", "complete_beam"}, "ophA_12co_mom0_sliced", "complete_beam", "", "", <<0, 0, 0, 0>>, FALSE, "", ""),
       Stmt(1051, "write", {}, {"ophA_12co_mom0_sliced", "os", "data_path"}, "ophA_12co_mom0_sliced", "", "", "Ophiuchus/OphA_12coFCRAO_F_map_sliced_withbeam.fits", <<0, 0, 0, 0>>, TRUE, "", ""),
       Stmt(1053, "with_beam", {"cube_12co_sliced_wbeam"}, {"cube_12co_sliced", "complete_beam"}, "cube_12co_sliced", "complete_beam", "", "", <<0, 0, 0, 0>>, FALSE, "", "") >>

\* The cell at line 1050 writing the map with its beam over the raw map.
PreCell_1050_OntoRaw ==
    << Stmt(1050, "with_beam", {"ophA_12co_mom0_sliced_wbeam"}, {"ophA_12co_mom0_sliced", "complete_beam"}, "ophA_12co_mom0_sliced", "complete_beam", "", "", <<0, 0, 0, 0>>, FALSE, "", ""),
       Stmt(1051, "write", {}, {"ophA_12co_mom0_sliced_wbeam", "os", "data_path"}, "ophA_12co_mom0_sliced_wbeam", "", "", "orig/Ophiuchus/OphA_12coFCRAO_F_map.fits", <<0, 0, 0, 0>>, TRUE, "", ""),
       Stmt(1053, "with_beam", {"cube_12co_sliced_wbeam"}, {"cube_12co_sliced", "complete_beam"}, "cube_12co_sliced", "complete_beam", "", "", <<0, 0, 0, 0>>, FALSE, "", "") >>

PreCell_1050 ==
    << Stmt(1050, "with_beam", {"ophA_12co_mom0_sliced_wbeam"}, {"ophA_12co_mom0_sliced", "complete_beam"}, "ophA_12co_mom0_sliced", "complete_beam", "", "", <<0, 0, 0, 0>>, FALSE, "", ""),
       Stmt(1051, "write", {}, {"ophA_12co_mom0_sliced_wbeam", "os", "data_path"}, "ophA_12co_mom0_sliced_wbeam", "", "", "Ophiuchus/OphA_12coFCRAO_F_map_sliced_withbeam.fits", <<0, 0, 0, 0>>, TRUE, "", ""),
       Stmt(1053, "with_beam", {"cube_12co_sliced_wbeam"}, {"cube_12co_sliced", "complete_beam"}, "cube_12co_sliced", "complete_beam", "", "", <<0, 0, 0, 0>>, FALSE, "", "") >>

\* The cell at line 1073 downsampling before it cuts the velocity range.
PreCell_1073_DownFirst ==
    << Stmt(1073, "down", {"cube_12co_sliced_wbeam"}, {"cube_12co_sliced_wbeam"}, "cube_12co_sliced_wbeam", "", "", "", <<0, 2, 0, 0>>, FALSE, "", ""),
       Stmt(1074, "slab", {"cube_12co_sliced_wbeam"}, {"u", "cube_12co_sliced_wbeam"}, "cube_12co_sliced_wbeam", "", "", "", <<0, 8, 0, 0>>, FALSE, "", ""),
       Stmt(1076, "write", {}, {"cube_12co_sliced_wbeam", "os", "data_path"}, "cube_12co_sliced_wbeam", "", "", "Ophiuchus/OphA_12coFCRAO_F_vxy_sliced_withbeam.fits", <<0, 0, 0, 0>>, TRUE, "", "") >>

PreCell_1073 ==
    << Stmt(1073, "slab", {"cube_12co_sliced_wbeam"}, {"u", "cube_12co_sliced_wbeam"}, "cube_12co_sliced_wbeam", "", "", "", <<0, 8, 0, 0>>, FALSE, "", ""),
       Stmt(1074, "down", {"cube_12co_sliced_wbeam"}, {"cube_12co_sliced_wbeam"}, "cube_12co_sliced_wbeam", "", "", "", <<0, 2, 0, 0>>, FALSE, "", ""),
       Stmt(1076, "write", {}, {"cube_12co_sliced_wbeam", "os", "data_path"}, "cube_12co_sliced_wbeam", "", "", "Ophiuchus/OphA_12coFCRAO_F_vxy_sliced_withbeam.fits", <<0, 0, 0, 0>>, TRUE, "", "") >>

PreCell_1087 ==
    << Stmt(1087, "with_beam", {"ophA_13co_mom0_sliced_wbeam"}, {"ophA_13co_mom0_sliced", "complete_beam"}, "ophA_13co_mom0_sliced", "complete_beam", "", "", <<0, 0, 0, 0>>, FALSE, "", ""),
       Stmt(1088, "write", {}, {"ophA_13co_mom0_sliced_wbeam", "os", "data_path"}, "ophA_13co_mom0_sliced_wbeam", "", "", "Ophiuchus/OphA_13coFCRAO_F_map_sliced_withbeam.fits", <<0, 0, 0, 0>>, TRUE, "", ""),
       Stmt(1090, "with_beam", {"cube_13co_sliced_wbeam"}, {"cube_13co_sliced", "complete_beam"}, "cube_13co_sliced", "complete_beam", "", "", <<0, 0, 0, 0>>, FALSE, "", ""),
       Stmt(1091, "slab", {"cube_13co_sliced_wbeam"}, {"u", "cube_13co_sliced_wbeam"}, "cube_13co_sliced_wbeam", "", "", "", <<0, 8, 0, 0>>, FALSE, "", ""),
       Stmt(1092, "down", {"cube_13co_sliced_wbeam"}, {"cube_13co_sliced_wbeam"}, "cube_13co_sliced_wbeam", "", "", "", <<0, 2, 0, 0>>, FALSE, "", ""),
       Stmt(1093, "write", {}, {"cube_13co_sliced_wbeam", "os", "data_path"}, "cube_13co_sliced_wbeam", "", "", "Ophiuchus/OphA_13coFCRAO_F_vxy_sliced_withbeam.fits", <<0, 0, 0, 0>>, TRUE, "", "") >>

PreCell_1118 ==
    << Stmt(1118, "from_hdu", {"perA_12co_mom0"}, {"Projection", "fits", "os", "data_path"}, "", "", "", "orig/Perseus/PerA_12coFCRAO_F_map.fits", <<0, 0, 0, 0>>, FALSE, "", ""),
       Stmt(1119, "with_beam", {"perA_12co_mom0_sliced_wbeam"}, {"perA_12co_mom0", "complete_beam"}, "perA_12co_mom0", "complete_beam", "", "", <<0, 0, 0, 0>>, FALSE, "", ""),
       Stmt(1120, "write", {}, {"perA_12co_mom0_sliced_wbeam", "os", "data_path"}, "perA_12co_mom0_sliced_wbeam", "", "", "Perseus/PerA_12coFCRAO_F_map_sliced_withbeam.fits", <<0, 0, 0, 0>>, TRUE, "", ""),
       Stmt(1122, "read", {"perA_cube_12co"}, {"SpectralCube", "os", "data_path"}, "", "", "", "orig/Perseus/perA_12coFCRAO_F_vxy.fits", <<0, 0, 0, 0>>, FALSE, "", ""),
       Stmt(1123, "setattr", {}, {"perA_cube_12co"}, "perA_cube_12co", "", "", "", <<0, 0, 0, 0>>, TRUE, "allow_huge_operations", ""),
       Stmt(1124, "with_beam", {"perA_cube_12co_sliced_wbeam"}, {"perA_cube_12co", "complete_beam"}, "perA_cube_12co", "complete_beam", "", "", <<0, 0, 0, 0>>, FALSE, "", ""),
       Stmt(1125, "slab", {"perA_cube_12co_sliced_wbeam"}, {"u", "perA_cube_12co_sliced_wbeam"}, "perA_cube_12co_sliced_wbeam", "", "", "", <<-5, 15, 0, 0>>, FALSE, "", ""),
       Stmt(1126, "down", {"perA_cube_12co_sliced_wbeam"}, {"perA_cube_12co_sliced_wbeam"}, "perA_cube_12co_sliced_wbeam", "", "", "", <<0, 2, 0, 0>>, FALSE, "", ""),
       Stmt(1127, "write", {}, {"perA_cube_12co_sliced_wbeam", "os", "data_path"}, "perA_cube_12co_sliced_wbeam", "", "", "Perseus/PerA_12coFCRAO_F_vxy_sliced_withbeam.fits", <<0, 0, 0, 0>>, TRUE, "", "") >>

PreCell_1137 ==
    << Stmt(1137, "use", {}, {"perA_12co_mom0"}, "", "", "", "", <<0, 0, 0, 0>>, FALSE, "", "") >>

PreCell_1148 ==
    << Stmt(1148, "from_hdu", {"perA_13co_mom0"}, {"Projection", "fits", "os", "data_path"}, "", "", "", "orig/Perseus/PerA_13coFCRAO_F_map.fits", <<0, 0, 0, 0>>, FALSE, "", ""),
       Stmt(1149, "with_beam", {"perA_13co_mom0_sliced_wbeam"}, {"perA_13co_mom0", "complete_beam"}, "perA_13co_mom0", "complete_beam", "", "", <<0, 0, 0, 0>>, FALSE, "", ""),
       Stmt(1150, "write", {}, {"perA_13co_mom0_sliced_wbeam", "os", "data_path"}, "perA_13co_mom0_sliced_wbeam", "", "", "Perseus/PerA_13coFCRAO_F_map_sliced_withbeam.fits", <<0, 0, 0, 0>>, TRUE, "", ""),
       Stmt(1152, "read", {"perA_cube_13co"}, {"SpectralCube", "os", "data_path"}, "", "", "", "orig/Perseus/perA_13coFCRAO_F_vxy.fits", <<0, 0, 0, 0>>, FALSE, "", ""),
       Stmt(1153, "setattr", {}, {"perA_cube_13co"}, "perA_cube_13co", "", "", "", <<0, 0, 0, 0>>, TRUE, "allow_huge_operations", ""),
       Stmt(1154, "with_beam", {"perA_cube_13co_sliced_wbeam"}, {"perA_cube_13co", "complete_beam"}, "perA_cube_13co", "complete_beam", "", "", <<0, 0, 0, 0>>, FALSE, "", ""),
       Stmt(1155, "slab", {"perA_cube_13co_sliced_wbeam"}, {"u", "perA_cube_13co_sliced_wbeam"}, "perA_cube_13co_sliced_wbeam", "", "", "", <<-5, 15, 0, 0>>, FALSE, "", ""),
       Stmt(1156, "down", {"perA_cube_13co_sliced_wbeam"}, {"perA_cube_13co_sliced_wbeam"}, "perA_cube_13co_sliced_wbeam", "", "", "", <<0, 2, 0, 0>>, FALSE, "", ""),
       Stmt(1157, "write", {}, {"perA_cube_13co_sliced_wbeam", "os", "data_path"}, "perA_cube_13co_sliced_wbeam", "", "", "Perseus/PerA_13coFCRAO_F_vxy_sliced_withbeam.fits", <<0, 0, 0, 0>>, TRUE, "", ""),
       Stmt(1160, "use", {}, {"perA_13co_mom0"}, "", "", "", "", <<0, 0, 0, 0>>, FALSE, "", "") >>

PreCell_1179 ==
    << Stmt(1179, "use", {}, {"complete_beam"}, "", "", "", "", <<0, 0, 0, 0>>, FALSE, "", "") >>

PreCell_1195 ==
    << Stmt(1195, "read", {"orion_mom0_12co"}, {"SpectralCube", "os", "data_path"}, "", "", "", "orig/Orion/mom0_12co_pix_2_Tmb.fits", <<0, 0, 0, 0>>, TRUE, "", ""),
       Stmt(1197, "use", {}, {"orion_mom0_12co"}, "", "", "", "", <<0, 0, 0, 0>>, FALSE, "", "") >>

PreCell_1213 ==
    << Stmt(1213, "use", {}, {"orion_mom0_12co"}, "", "", "", "", <<0, 0, 0, 0>>, FALSE, "", "") >>

PreCell_1229 ==
    << Stmt(1229, "convolve", {"orion_mom0_12co_smoothed"}, {"orion_mom0_12co", "complete_beam"}, "orion_mom0_12co", "complete_beam", "", "", <<0, 0, 0, 0>>, FALSE, "", "") >>

PreCell_1238 ==
    << Stmt(1238, "use", {}, {"orion_mom0_12co_smoothed"}, "", "", "", "", <<0, 0, 0, 0>>, FALSE, "", "") >>

\* The cell at line 1288 downsampling the spectral axis as well.
PreCell_1288_Spectral ==
    << Stmt(1288, "read", {"orion_cube_12co"}, {"SpectralCube", "os", "data_path"}, "", "", "", "orig/Orion/CARMA_NRO_Orion_12co.fits", <<0, 0, 0, 0>>, FALSE, "", ""),
       Stmt(1291, "setattr", {}, {"orion_cube_12co"}, "orion_cube_12co", "", "", "", <<0, 0, 0, 0>>, TRUE, "allow_huge_operations", ""),
       Stmt(1293, "convolve", {"orion_cube_12co_smoothed"}, {"orion_cube_12co", "complete_beam"}, "orion_cube_12co", "complete_beam", "", "", <<0, 0, 0, 0>>, FALSE, "", ""),
       Stmt(1297, "down", {"orion_cube_12co_downsamp"}, {"orion_cube_12co_smoothed"}, "orion_cube_12co_smoothed", "", "", "", <<0, 11, 1, 11>>, FALSE, "", ""),
       Stmt(1299, "write", {}, {"orion_cube_12co_downsamp", "os", "data_path"}, "orion_cube_12co_downsamp", "", "", "Orion/CARMA_NRO_Orion_12co_smoothed46.fits", <<0, 0, 0, 0>>, TRUE, "", "") >>

PreCell_1288 ==
    << Stmt(1288, "read", {"orion_cube_12co"}, {"SpectralCube", "os", "data_path"}, "", "", "", "orig/Orion/CARMA_NRO_Orion_12co.fits", <<0, 0, 0, 0>>, FALSE, "", ""),
       Stmt(1291, "setattr", {}, {"orion_cube_12co"}, "orion_cube_12co", "", "", "", <<0, 0, 0, 0>>, TRUE, "allow_huge_operations", ""),
       Stmt(1293, "convolve", {"orion_cube_12co_smoothed"}, {"orion_cube_12co", "complete_beam"}, "orion_cube_12co", "complete_beam", "", "", <<0, 0, 0, 0>>, FALSE, "", ""),
       Stmt(1297, "down", {"orion_cube_12co_downsamp"}, {"orion_cube_12co_smoothed"}, "orion_cube_12co_smoothed", "", "", "", <<1, 11, 2, 11>>, FALSE, "", ""),
       Stmt(1299, "write", {}, {"orion_cube_12co_downsamp", "os", "data_path"}, "orion_cube_12co_downsamp", "", "", "Orion/CARMA_NRO_Orion_12co_smoothed46.fits", <<0, 0, 0, 0>>, TRUE, "", "") >>

PreCell_1315 ==
    << Stmt(1315, "reproject", {"orion_mom0_12co_smoothed"}, {"orion_mom0_12co_smoothed", "orion_cube_12co_downsamp"}, "orion_mom0_12co_smoothed", "orion_cube_12co_downsamp", "", "", <<0, 0, 0, 0>>, TRUE, "", ""),
       Stmt(1317, "write", {}, {"orion_mom0_12co_smoothed", "os", "data_path"}, "orion_mom0_12co_smoothed", "", "", "Orion/mom0_12co_pix_2_Tmb_smoothed46.fits", <<0, 0, 0, 0>>, TRUE, "", "") >>

PreCell_1333 ==
    << Stmt(1333, "read", {"orion_cube_13co"}, {"SpectralCube", "os", "data_path"}, "", "", "", "orig/Orion/CARMA_NRO_Orion_13co.fits", <<0, 0, 0, 0>>, FALSE, "", ""),
       Stmt(1336, "setattr", {}, {"orion_cube_13co"}, "orion_cube_13co", "", "", "", <<0, 0, 0, 0>>, TRUE, "allow_huge_operations", ""),
       Stmt(1338, "convolve", {"orion_cube_13co_smoothed"}, {"orion_cube_13co", "complete_beam"}, "orion_cube_13co", "complete_beam", "", "", <<0, 0, 0, 0>>, FALSE, "", ""),
       Stmt(1340, "down", {"orion_cube_13co_downsamp"}, {"orion_cube_13co_smoothed"}, "orion_cube_13co_smoothed", "", "", "", <<1, 11, 2, 11>>, FALSE, "", ""),
       Stmt(1342, "write", {}, {"orion_cube_13co_downsamp", "os", "data_path"}, "orion_cube_13co_downsamp", "", "", "Orion/CARMA_NRO_Orion_13co_smoothed46.fits", <<0, 0, 0, 0>>, TRUE, "", "") >>

\* The cell at line 1351 reprojecting the 13CO map onto the 12CO cube.
PreCell_1351_OtherTracer ==
    << Stmt(1351, "read", {"orion_mom0_13co"}, {"SpectralCube", "os", "data_path"}, "", "", "", "orig/Orion/mom0_13co_pix_2_Tmb.fits", <<0, 0, 0, 0>>, TRUE, "", ""),
       Stmt(1353, "convolve", {"orion_mom0_13co_smoothed"}, {"orion_mom0_13co", "complete_beam"}, "orion_mom0_13co", "complete_beam", "", "", <<0, 0, 0, 0>>, FALSE, "", ""),
       Stmt(1354, "reproject", {"orion_mom0_13co_smoothed"}, {"orion_mom0_13co_smoothed", "orion_cube_12co_downsamp"}, "orion_mom0_13co_smoothed", "orion_cube_12co_downsamp", "", "", <<0, 0, 0, 0>>, TRUE, "", ""),
       Stmt(1356, "write", {}, {"orion_mom0_13co_smoothed", "os", "data_path"}, "orion_mom0_13co_smoothed", "", "", "Orion/mom0_13co_pix_2_Tmb_smoothed46.fits", <<0, 0, 0, 0>>, TRUE, "", "") >>

PreCell_1351 ==
    << Stmt(1351, "read", {"orion_mom0_13co"}, {"SpectralCube", "os", "data_path"}, "", "", "", "orig/Orion/mom0_13co_pix_2_Tmb.fits", <<0, 0, 0, 0>>, TRUE, "", ""),
       Stmt(1353, "convolve", {"orion_mom0_13co_smoothed"}, {"orion_mom0_13co", "complete_beam"}, "orion_mom0_13co", "complete_beam", "", "", <<0, 0, 0, 0>>, FALSE, "", ""),
       Stmt(1354, "reproject", {"orion_mom0_13co_smoothed"}, {"orion_mom0_13co_smoothed", "orion_cube_13co_downsamp"}, "orion_mom0_13co_smoothed", "orion_cube_13co_downsamp", "", "", <<0, 0, 0, 0>>, TRUE, "", ""),
       Stmt(1356, "write", {}, {"orion_mom0_13co_smoothed", "os", "data_path"}, "orion_mom0_13co_smoothed", "", "", "Orion/mom0_13co_pix_2_Tmb_smoothed46.fits", <<0, 0, 0, 0>>, TRUE, "", "") >>

PreCell_1365 ==
    << Stmt(1365, "read", {"orion_cube_c18o"}, {"SpectralCube", "os", "data_path"}, "", "", "", "orig/Orion/CARMA_NRO_Orion_c18o.fits", <<0, 0, 0, 0>>, FALSE, "", ""),
       Stmt(1368, "setattr", {}, {"orion_cube_c18o"}, "orion_cube_c18o", "", "", "", <<0, 0, 0, 0>>, TRUE, "allow_huge_operations", ""),
       Stmt(1370, "convolve", {"orion_cube_c18o_smoothed"}, {"orion_cube_c18o", "complete_beam"}, "orion_cube_c18o", "complete_beam", "", "", <<0, 0, 0, 0>>, FALSE, "", ""),
       Stmt(1372, "down", {"orion_cube_c18o_downsamp"}, {"orion_cube_c18o_smoothed"}, "orion_cube_c18o_smoothed", "", "", "", <<1, 11, 2, 11>>, FALSE, "", ""),
       Stmt(1374, "write", {}, {"orion_cube_c18o_downsamp", "os", "data_path"}, "orion_cube_c18o_downsamp", "", "", "Orion/CARMA_NRO_Orion_c18o_smoothed46.fits", <<0, 0, 0, 0>>, TRUE, "", "") >>

PreCell_1383 ==
    << Stmt(1383, "read", {"orion_mom0_c18o"}, {"SpectralCube", "os", "data_path"}, "", "", "", "orig/Orion/mom0_c18o_pix_2_Tmb.fits", <<0, 0, 0, 0>>, TRUE, "", ""),
       Stmt(1385, "convolve", {"orion_mom0_c18o_smoothed"}, {"orion_mom0_c18o", "complete_beam"}, "orion_mom0_c18o", "complete_beam", "", "", <<0, 0, 0, 0>>, FALSE, "", ""),
       Stmt(1386, "reproject", {"orion_mom0_c18o_smoothed"}, {"orion_mom0_c18o_smoothed", "orion_cube_c18o_downsamp"}, "orion_mom0_c18o_smoothed", "orion_cube_c18o_downsamp", "", "", <<0, 0, 0, 0>>, TRUE, "", ""),
       Stmt(1388, "write", {}, {"orion_mom0_c18o_smoothed", "os", "data_path"}, "orion_mom0_c18o_smoothed", "", "", "Orion/mom0_c18o_pix_2_Tmb_smoothed46.fits", <<0, 0, 0, 0>>, TRUE, "", "") >>

PreCells ==
    << PreCell_840,
       PreCell_851,
       PreCell_871,
       PreCell_890,
       PreCell_908,
       PreCell_933,
       PreCell_962,
       PreCell_982,
       PreCell_1029,
       PreCell_1050,
       PreCell_1073,
       PreCell_1087,
       PreCell_1118,
       PreCell_1137,
       PreCell_1148,
       PreCell_1179,
       PreCell_1195,
       PreCell_1213,
       PreCell_1229,
       PreCell_1238,
       PreCell_1288,
       PreCell_1315,
       PreCell_1333,
       PreCell_1351,
       PreCell_1365,
       PreCell_1383 >>

NB == {"pre", "ana"}

Cells(nb) == IF nb = "pre" THEN PreCells ELSE AnaCells

AllStmts(nb) ==
    {Cells(nb)[c][k] : <<c, k>> \in {x \in (1..Len(Cells(nb))) \X (1..12) :
                                       x[2] <= Len(Cells(nb)[x[1]])}}

\* Every name notebook nb binds or reads.
Names(nb) == UNION {st.tgt \cup st.uses : st \in AllStmts(nb)}
NamesPre == Names("pre")
NamesAna == Names("ana")
NamesOf(nb) == IF nb = "pre" THEN NamesPre ELSE NamesAna

\* Every path, relative to the data root, either notebook names.
RelPaths == {st.rel : st \in AllStmts("pre") \cup AllStmts("ana")} \ {""}

(***************************************************************************)
(* The environment: the user account, the installed packages and the data  *)
(* download.                                                               *)
(***************************************************************************)
Homes == {"/Users/ekoch", "/home/student"}

\* expanduser resolving "~" to one home directory on every account.
ExpandUserFixed(head, rest, h) == IF head = "~" THEN "/Users/ekoch" \o rest ELSE head \o rest

\* os.path.expanduser: a leading "~" becomes the home directory.
ExpandUser(head, rest, h) == IF head = "~" THEN h \o rest ELSE head \o rest

Roots ==
    {st.s : st \in {x \in AllStmts("pre") \cup AllStmts("ana") : x.op = "str"}}
    \cup {ExpandUser(st.s, st.opt, h) :
            st \in {x \in AllStmts("pre") \cup AllStmts("ana") : x.op = "expanduser"},
            h \in Homes}

Paths == Roots \X RelPaths

\* The finite pixels of the raw Ophiuchus moment-0 maps: in each a large
\* region that a raster scan meets first, and a smaller one.
OphMask12 == {<<0, 0>>, <<1, 0>>, <<0, 2>>}
OphMask13 == {<<0, 1>>, <<0, 2>>, <<1, 2>>, <<1, 0>>}
PerMask == {<<0, 0>>, <<0, 1>>, <<1, 1>>}

\* The spectral axes of the raw cubes: km/s range and number of channels.
OphAxis == [vlo |-> -4, vhi |-> 12, nv |-> 32]
PerAxis == [vlo |-> -10, vhi |-> 20, nv |-> 60]
OrionAxis == [vlo |-> 0, vhi |-> 16, nv |-> 16]

\* The pixel grids of the CARMA-NRO Orion data (2 arcsec pixels); the 12CO
\* grid holds the two regions the analysis selects, the 13CO grid differs.
OrionGrid(tracer) == IF tracer = "12co" THEN <<4400, 2400>> ELSE <<4380, 2390>>

\* The beams, in arcsec, the raw files record: none (COMPLETE), 10 (Orion).
OrionBeam == 10

RawMap(shape, mask, beam) ==
    [NoObj EXCEPT !.kind = "file", !.shape = shape, !.mask = mask, !.beam = beam]

RawCube(axis, grid, beam) ==
    [NoObj EXCEPT !.kind = "file", !.shape = <<axis.nv, grid[1], grid[2]>>,
                  !.vlo = axis.vlo, !.vhi = axis.vhi, !.beam = beam]

\* The files of the data download.  axes gives the number of axes of each of
\* the two original-resolution Orion moment maps kept outside orig/: 3 with
\* the redundant spectral axis, 2 without.
Download(rel, axes) ==
    CASE rel = "orig/Ophiuchus/OphA_12coFCRAO_F_map.fits" ->
            RawMap(<<GridH, GridW>>, OphMask12, 0)
      [] rel = "orig/Ophiuchus/OphA_13coFCRAO_F_map.fits" ->
            RawMap(<<GridH, GridW>>, OphMask13, 0)
      [] rel \in {"orig/Ophiuchus/OphA_12coFCRAO_F_vxy.fits",
                  "orig/Ophiuchus/OphA_13coFCRAO_F_vxy.fits"} ->
            RawCube(OphAxis, <<GridH, GridW>>, 0)
      [] rel \in {"orig/Perseus/PerA_12coFCRAO_F_map.fits",
                  "orig/Perseus/PerA_13coFCRAO_F_map.fits"} ->
            RawMap(<<GridH, GridW>>, PerMask, 0)
      [] rel \in {"orig/Perseus/perA_12coFCRAO_F_vxy.fits",
                  "orig/Perseus/perA_13coFCRAO_F_vxy.fits"} ->
            RawCube(PerAxis, <<GridH, GridW>>, 0)
      [] rel = "orig/Orion/CARMA_NRO_Orion_12co.fits" ->
            RawCube(OrionAxis, OrionGrid("12co"), OrionBeam)
      [] rel = "orig/Orion/CARMA_NRO_Orion_13co.fits" ->
            RawCube(OrionAxis, OrionGrid("13co"), OrionBeam)
      [] rel = "orig/Orion/CARMA_NRO_Orion_c18o.fits" ->
            RawCube(OrionAxis, OrionGrid("c18o"), OrionBeam)
      [] rel = "orig/Orion/mom0_12co_pix_2_Tmb.fits" ->
            RawMap(<<1>> \o OrionGrid("12co"), {}, OrionBeam)
      [] rel = "orig/Orion/mom0_13co_pix_2_Tmb.fits" ->
            RawMap(<<1>> \o OrionGrid("13co"), {}, OrionBeam)
      [] rel = "orig/Orion/mom0_c18o_pix_2_Tmb.fits" ->
            RawMap(<<1>> \o OrionGrid("c18o"), {}, OrionBeam)
      [] rel = "Orion/mom0_12co_pix_2_Tmb.fits" ->
            RawMap((IF axes["12co"] = 3 THEN <<1>> ELSE <<>>) \o OrionGrid("12co"), {}, OrionBeam)
      [] rel = "Orion/mom0_13co_pix_2_Tmb.fits" ->
            RawMap((IF axes["13co"] = 3 THEN <<1>> ELSE <<>>) \o OrionGrid("13co"), {}, OrionBeam)
      [] OTHER -> NoFile

Idle == <<"", 0, 0>>

InitKernel ==
    /\ ns = [nb \in NB |-> [n \in NamesOf(nb) |-> NoObj]]
    /\ pc = Idle
    /\ done = [nb \in NB |-> 0]
    /\ err = [nb \in NB |-> ""]
    /\ reads = {}
    /\ writes = {}
    /\ handled = {}
    /\ reruns = 0

Init ==
    /\ InitKernel
    /\ home \in Homes
    /\ missing \in {{}, {"turbustat"}}
    /\ \E axes \in [{"12co", "13co"} -> {2, 3}] :
          disk = [p \in Paths |-> Download(p[2], axes)]

(***************************************************************************)
(* Running cells.  The user runs one cell at a time; a cell runs its       *)
(* statements in order.                                                    *)
(***************************************************************************)
Running == pc # Idle
Cur == Cells(pc[1])[pc[2]][pc[3]]
Env == ns[pc[1]]

\* Top-to-bottom execution: the next cell of notebook nb that has not run.
StartNext(nb) ==
    /\ pc = Idle
    /\ done[nb] < Len(Cells(nb))
    /\ pc' = <<nb, done[nb] + 1, 1>>
    /\ done' = [done EXCEPT ![nb] = @ + 1]
    /\ err' = [err EXCEPT ![nb] = ""]
    /\ UNCHANGED <<ns, disk, reads, writes, handled, reruns, home, missing>>

\* Manual execution: a cell that has run before is run again.
Rerun(nb, c) ==
    /\ pc = Idle
    /\ c \in 1..done[nb]
    /\ reruns < MaxReruns
    /\ pc' = <<nb, c, 1>>
    /\ reruns' = reruns + 1
    /\ err' = [err EXCEPT ![nb] = ""]
    /\ UNCHANGED <<ns, disk, done, reads, writes, handled, home, missing>>

\* The statement ended normally: on to the next one, or the cell is over.
Advance ==
    /\ pc' = IF pc[3] < Len(Cells(pc[1])[pc[2]])
               THEN <<pc[1], pc[2], pc[3] + 1>> ELSE Idle
    /\ UNCHANGED err

\* An exception that is swallowed: the cell goes on with its next statement.
RaiseSwallowed(exc) ==
    /\ pc' = IF pc[3] < Len(Cells(pc[1])[pc[2]])
               THEN <<pc[1], pc[2], pc[3] + 1>> ELSE Idle
    /\ err' = [err EXCEPT ![pc[1]] = exc]

\* The statement raised exc: nothing catches it, the cell is aborted.
Raise(exc) ==
    /\ pc' = Idle
    /\ err' = [err EXCEPT ![pc[1]] = exc]

Bind(tgt, o) ==
    ns' = [ns EXCEPT ![pc[1]] = [n \in DOMAIN @ |-> IF n \in tgt THEN o ELSE @[n]]]

Ready(op) ==
    /\ Running
    /\ Cur.op = op
    /\ \A n \in Cur.uses : Bound(Env[n])

\* The path a load or a write names: a variable holding it, or
\* os.path.join(data_path, rel).
PathArg == IF Cur.pv # "" THEN Env[Cur.pv].path ELSE <<Env["data_path"].path[1], Cur.rel>>

Lookup(p) == IF p \in DOMAIN disk THEN disk[p] ELSE NoFile

StrObj(p, site) == [NoObj EXCEPT !.kind = "str", !.path = p, !.id = site]

\* A name that is not bound is read.
NameError ==
    /\ Running
    /\ \E n \in Cur.uses : ~Bound(Env[n])
    /\ Raise("NameError")
    /\ UNCHANGED <<ns, disk, done, reads, writes, handled, reruns, home, missing>>

\* import m / from m import a, b
DoImport ==
    /\ Ready("import")
    /\ IF Cur.s \in missing
         THEN Raise("ImportError") /\ UNCHANGED ns
         ELSE Bind(Cur.tgt, [NoObj EXCEPT !.kind = "module", !.s = Cur.s]) /\ Advance
    /\ UNCHANGED <<disk, done, reads, writes, handled, reruns, home, missing>>

\* try: import turbustat / except ImportError: print(...)
DoTryImport ==
    /\ Ready("try_import")
    /\ IF Cur.s \in missing
         THEN /\ handled' = handled \cup
                    {[nb |-> pc[1], line |-> Cur.line, exc |-> "ImportError"]}
              /\ UNCHANGED ns
         ELSE /\ Bind(Cur.tgt, [NoObj EXCEPT !.kind = "module", !.s = Cur.s])
              /\ UNCHANGED handled
    /\ Advance
    /\ UNCHANGED <<disk, done, reads, writes, reruns, home, missing>>

\* A display, a plot or a print: reads names, binds none.
DoUse ==
    /\ Ready("use")
    /\ Advance
    /\ UNCHANGED <<ns, disk, done, reads, writes, handled, reruns, home, missing>>

\* data_path = "<literal>"
DoStr ==
    /\ Ready("str")
    /\ Bind(Cur.tgt, StrObj(<<Cur.s, "">>, Cur.line))
    /\ Advance
    /\ UNCHANGED <<disk, done, reads, writes, handled, reruns, home, missing>>

\* data_path = os.path.expanduser("~/...")
DoExpandUser ==
    /\ Ready("expanduser")
    /\ Bind(Cur.tgt, StrObj(<<ExpandUser(Cur.s, Cur.opt, home), "">>, Cur.line))
    /\ Advance
    /\ UNCHANGED <<disk, done, reads, writes, handled, reruns, home, missing>>

\* name = os.path.join(data_path, rel)
DoJoin ==
    /\ Ready("join")
    /\ Bind(Cur.tgt, StrObj(PathArg, Cur.line))
    /\ Advance
    /\ UNCHANGED <<disk, done, reads, writes, handled, reruns, home, missing>>

LogRead == reads' = reads \cup {[nb |-> pc[1], path |-> PathArg, line |-> Cur.line]}

\* hdu = fits.open(path)
DoFitsOpen ==
    /\ Ready("fits_open")
    /\ IF Lookup(PathArg) = NoFile
         THEN Raise("FileNotFoundError") /\ UNCHANGED <<ns, reads>>
         ELSE /\ Bind(Cur.tgt, Loaded(Lookup(PathArg), PathArg, "hdul", "fits.open", Cur.line))
              /\ LogRead
              /\ Advance
    /\ UNCHANGED <<disk, done, writes, handled, reruns, home, missing>>

\* SpectralCube.read(path), and SpectralCube.read(path)[0] when the
\* statement's flag is set.  A file with other than 3 axes is no cube.
DoRead ==
    /\ Ready("read")
    /\ LET f == Lookup(PathArg)
           cube == Loaded(f, PathArg, "cube", "SpectralCube.read", Cur.line)
       IN  IF f = NoFile
             THEN Raise("FileNotFoundError") /\ UNCHANGED <<ns, reads>>
             ELSE IF Len(f.shape) # 3
               THEN Raise("ValueError") /\ UNCHANGED <<ns, reads>>
               ELSE /\ Bind(Cur.tgt, IF Cur.flag THEN Plane0(cube, Cur.line) ELSE cube)
                    /\ LogRead
                    /\ Advance
    /\ UNCHANGED <<disk, done, writes, handled, reruns, home, missing>>

\* Projection.from_hdu(fits.open(path)): the data must have 2 axes.
DoFromHdu ==
    /\ Ready("from_hdu")
    /\ LET f == Lookup(PathArg)
       IN  IF f = NoFile
             THEN Raise("FileNotFoundError") /\ UNCHANGED <<ns, reads>>
             ELSE IF Len(f.shape) # 2
               THEN Raise("ValueError") /\ UNCHANGED <<ns, reads>>
               ELSE /\ Bind(Cur.tgt, Loaded(f, PathArg, "proj", "Projection.from_hdu", Cur.line))
                    /\ LogRead
                    /\ Advance
    /\ UNCHANGED <<disk, done, writes, handled, reruns, home, missing>>

\* The first of the two axes a two-slice index falls on: after a leading
\* ":" or slice(None) the second axis, else the first.
FirstAxis == IF Cur.flag THEN 2 ELSE 1

\* a[y0:y1, x0:x1], a[:, y0:y1, x0:x1]
DoIndex ==
    /\ Ready("index")
    /\ IF FirstAxis + 1 > Len(Env[Cur.a].shape)
         THEN Raise("IndexError") /\ UNCHANGED ns
         ELSE Bind(Cur.tgt, SliceAxes(Env[Cur.a], Cur.n, FirstAxis, Cur.line)) /\ Advance
    /\ UNCHANGED <<disk, done, reads, writes, handled, reruns, home, missing>>

\* a[this_slice], a[(slice(None),) + this_slice]
DoIndexBy ==
    /\ Ready("index_by")
    /\ IF FirstAxis + 1 > Len(Env[Cur.a].shape)
         THEN Raise("IndexError") /\ UNCHANGED ns
         ELSE /\ Bind(Cur.tgt, SliceAxes(Env[Cur.a], Env[Cur.b].items[1], FirstAxis, Cur.line))
              /\ Advance
    /\ UNCHANGED <<disk, done, reads, writes, handled, reruns, home, missing>>

\* finite_mask = np.isfinite(a)
DoIsFinite ==
    /\ Ready("isfinite")
    /\ Bind(Cur.tgt, [NoObj EXCEPT !.kind = "mask", !.path = Env[Cur.a].path,
                                   !.shape = Env[Cur.a].shape,
                                   !.mask = Env[Cur.a].mask, !.id = Cur.line])
    /\ Advance
    /\ UNCHANGED <<disk, done, reads, writes, handled, reruns, home, missing>>

\* list_of_slices = nd.find_objects(nd.label(finite_mask)[0])
DoFindObjects ==
    /\ Ready("find_objects")
    /\ LET m == Env[Cur.a]
       IN  Bind(Cur.tgt, [NoObj EXCEPT !.kind = "slices", !.path = m.path,
                              !.items = FindObjects(Label(m.mask, m.shape[Len(m.shape)])),
                              !.id = Cur.line])
    /\ Advance
    /\ UNCHANGED <<disk, done, reads, writes, handled, reruns, home, missing>>

\* this_slice = list_of_slices[0]
DoItem ==
    /\ Ready("item")
    /\ IF Len(Env[Cur.a].items) = 0
         THEN Raise("IndexError") /\ UNCHANGED ns
         ELSE /\ Bind(Cur.tgt, [Env[Cur.a] EXCEPT !.kind = "slice",
                                   !.items = <<Env[Cur.a].items[1]>>, !.id = Cur.line])
              /\ Advance
    /\ UNCHANGED <<disk, done, reads, writes, handled, reruns, home, missing>>

\* complete_beam = Beam(major=46 * u.arcsec)
DoBeam ==
    /\ Ready("beam")
    /\ Bind(Cur.tgt, [NoObj EXCEPT !.kind = "beam", !.beam = Cur.n[1], !.id = Cur.line])
    /\ Advance
    /\ UNCHANGED <<disk, done, reads, writes, handled, reruns, home, missing>>

\* with_beam setting the beam of the object it is called on as well.
DoWithBeamInPlace ==
    /\ Ready("with_beam")
    /\ Bind(Cur.tgt \cup {Cur.a}, WithBeam(Env[Cur.a], Env[Cur.b], Cur.line))
    /\ Advance
    /\ UNCHANGED <<disk, done, reads, writes, handled, reruns, home, missing>>

\* t = a.with_beam(b)
DoWithBeam ==
    /\ Ready("with_beam")
    /\ Bind(Cur.tgt, WithBeam(Env[Cur.a], Env[Cur.b], Cur.line))
    /\ Advance
    /\ UNCHANGED <<disk, done, reads, writes, handled, reruns, home, missing>>

\* t = a.spectral_slab(lo * u.km / u.s, hi * u.km / u.s)
DoSlab ==
    /\ Ready("slab")
    /\ Bind(Cur.tgt, SpectralSlab(Env[Cur.a], Cur.n[1], Cur.n[2], Cur.line))
    /\ Advance
    /\ UNCHANGED <<disk, done, reads, writes, handled, reruns, home, missing>>

\* t = a.downsample_axis(axis=, factor=), or two such calls chained.
DoDown ==
    /\ Ready("down")
    /\ LET once == DownsampleAxis(Env[Cur.a], Cur.n[1], Cur.n[2], Cur.line)
       IN  Bind(Cur.tgt, IF Cur.n[4] > 0
                           THEN DownsampleAxis(once, Cur.n[3], Cur.n[4], Cur.line)
                           ELSE once)
    /\ Advance
    /\ UNCHANGED <<disk, done, reads, writes, handled, reruns, home, missing>>

\* t = a.convolve_to(b, allow_huge=True): a needs a beam no larger than b.
DoConvolve ==
    /\ Ready("convolve")
    /\ IF Env[Cur.a].beam = 0 \/ Env[Cur.a].beam > Env[Cur.b].beam
         THEN Raise("ValueError") /\ UNCHANGED ns
         ELSE Bind(Cur.tgt, ConvolveTo(Env[Cur.a], Env[Cur.b], Cur.line)) /\ Advance
    /\ UNCHANGED <<disk, done, reads, writes, handled, reruns, home, missing>>

\* t = a.reproject(b.header), t = a.reproject(b[0].header)
DoReproject ==
    /\ Ready("reproject")
    /\ Bind(Cur.tgt, Reproject(Env[Cur.a],
                               Header2D(IF Cur.flag THEN Plane0(Env[Cur.b], Cur.line)
                                                    ELSE Env[Cur.b]),
                               Cur.line))
    /\ Advance
    /\ UNCHANGED <<disk, done, reads, writes, handled, reruns, home, missing>>

\* a.write(path), a.write(path, overwrite=True)
DoWrite ==
    /\ Ready("write")
    /\ IF Lookup(PathArg) # NoFile /\ ~Cur.flag
         THEN Raise("OSError") /\ UNCHANGED <<disk, writes>>
         ELSE /\ disk' = [p \in DOMAIN disk \cup {PathArg} |->
                            IF p = PathArg THEN AsFile(Env[Cur.a]) ELSE disk[p]]
              /\ writes' = writes \cup {[nb |-> pc[1], path |-> PathArg,
                                         line |-> Cur.line, obj |-> AsFile(Env[Cur.a])]}
              /\ Advance
    /\ UNCHANGED <<ns, done, reads, handled, reruns, home, missing>>

\* a.allow_huge_operations = True
DoSetAttr ==
    /\ Ready("setattr")
    /\ ns' = [ns EXCEPT ![pc[1]][Cur.a].huge = Cur.flag]
    /\ Advance
    /\ UNCHANGED <<disk, done, reads, writes, handled, reruns, home, missing>>

\* The assert statement switched off.
DoAssertShapeOff ==
    /\ Ready("assert_shape")
    /\ Advance
    /\ UNCHANGED <<ns, disk, done, reads, writes, handled, reruns, home, missing>>

\* assert a.shape == b.shape[1:]
DoAssertShape ==
    /\ Ready("assert_shape")
    /\ IF Env[Cur.a].shape = Tail(Env[Cur.b].shape)
         THEN Advance
         ELSE Raise("AssertionError")
    /\ UNCHANGED <<ns, disk, done, reads, writes, handled, reruns, home, missing>>

\* t = PowerSpectrum(a), VCA(a), PSpec_Distance(a, b), SCF_Distance(a, b),
\* PDF_Distance(a, b, normalization_type=opt)
DoStat ==
    /\ Ready("stat")
    /\ Bind(Cur.tgt, [NoObj EXCEPT !.kind = "stat", !.s = Cur.s, !.opt = Cur.opt,
                         !.items = IF Cur.b = "" THEN <<Env[Cur.a].shape>>
                                   ELSE <<Env[Cur.a].shape, Env[Cur.b].shape>>,
                         !.fit = IF Cur.s = "PSpec_Distance"
                                   THEN <<Env[Cur.a].fit, Env[Cur.b].fit>> ELSE <<>>,
                         !.id = Cur.line])
    /\ Advance
    /\ UNCHANGED <<disk, done, reads, writes, handled, reruns, home, missing>>

\* distance_metric() leaving the statistic without its results.
DoRunNoResult ==
    /\ Ready("run")
    /\ Advance
    /\ UNCHANGED <<ns, disk, done, reads, writes, handled, reruns, home, missing>>

\* a.run(...), a.distance_metric(...): the statistic computes its results;
\* PSpec_Distance its distance, where the model knows the fits of the data.
DoRun ==
    /\ Ready("run")
    /\ LET st == Env[Cur.a]
           known == Len(st.fit) = 2 /\ Len(st.fit[1]) = 2 /\ Len(st.fit[2]) = 2
       IN  ns' = [ns EXCEPT ![pc[1]][Cur.a] =
                     [st EXCEPT !.done = TRUE,
                                !.distance = IF known THEN PSpecDistance(st.fit[1], st.fit[2])
                                                      ELSE <<>>]]
    /\ Advance
    /\ UNCHANGED <<disk, done, reads, writes, handled, reruns, home, missing>>

\* a.distance, a.lognormal_distance, ...: set by distance_metric only.
DoAttr ==
    /\ Ready("attr")
    /\ IF Env[Cur.a].done THEN Advance ELSE Raise("AttributeError")
    /\ UNCHANGED <<ns, disk, done, reads, writes, handled, reruns, home, missing>>

Step ==
    \/ NameError
    \/ DoImport
    \/ DoTryImport
    \/ DoUse
    \/ DoStr
    \/ DoExpandUser
    \/ DoJoin
    \/ DoFitsOpen
    \/ DoRead
    \/ DoFromHdu
    \/ DoIndex
    \/ DoIndexBy
    \/ DoIsFinite
    \/ DoFindObjects
    \/ DoItem
    \/ DoBeam
    \/ DoWithBeam
    \/ DoSlab
    \/ DoDown
    \/ DoConvolve
    \/ DoReproject
    \/ DoWrite
    \/ DoSetAttr
    \/ DoAssertShape
    \/ DoStat
    \/ DoRun
    \/ DoAttr

\* Top-to-bottom execution of both notebooks, one cell at a time.
Next ==
    \/ \E nb \in NB : StartNext(nb)
    \/ Step

Spec == Init /\ [][Next]_vars

(***************************************************************************)
(* The trimming section of the preprocessing notebook (the cells above the *)
(* "appending beam information" heading), run top to bottom on an          *)
(* Ophiuchus 12CO map with any set of finite pixels.                       *)
(***************************************************************************)
Grid == (0..(GridH - 1)) \X (0..(GridW - 1))

\* The source line of the heading that ends the trimming section.
BeamSection == 1016

InitTrim ==
    /\ InitKernel
    /\ home = "/Users/ekoch"
    /\ missing = {}
    /\ \E m \in SUBSET Grid :
          disk = [p \in Paths |->
                    IF p[2] = "orig/Ophiuchus/OphA_12coFCRAO_F_map.fits"
                      THEN RawMap(<<GridH, GridW>>, m, 0)
                      ELSE Download(p[2], [x \in {"12co", "13co"} |-> 3])]

StartTrim ==
    /\ done["pre"] < Len(PreCells)
    /\ PreCells[done["pre"] + 1][1].line < BeamSection
    /\ StartNext("pre")

NextTrim ==
    \/ StartTrim
    \/ NameError
    \/ DoImport
    \/ DoUse
    \/ DoStr
    \/ DoRead
    \/ DoFromHdu
    \/ DoIndexBy
    \/ DoIsFinite
    \/ DoFindObjects
    \/ DoItem
    \/ DoWrite
    \/ DoAssertShape

SpecTrim == InitTrim /\ [][NextTrim]_vars

(***************************************************************************)
(* Manual execution of the preprocessing notebook: besides running the     *)
(* next cell, the user may run again, at most MaxReruns times, a cell that *)
(* has already run.                                                        *)
(***************************************************************************)
InitManual ==
    /\ InitKernel
    /\ home = "/Users/ekoch"
    /\ missing = {}
    /\ disk = [p \in Paths |-> Download(p[2], [x \in {"12co", "13co"} |-> 3])]

NextManual ==
    \/ StartNext("pre")
    \/ \E c \in 1..Len(PreCells) : Rerun("pre", c)
    \/ DoImport
    \/ DoUse
    \/ DoStr
    \/ DoRead
    \/ DoFromHdu
    \/ DoIndexBy
    \/ DoIsFinite
    \/ DoFindObjects
    \/ DoItem
    \/ DoBeam
    \/ DoWithBeam
    \/ DoSlab
    \/ DoDown
    \/ DoConvolve
    \/ DoReproject
    \/ DoWrite
    \/ DoSetAttr
    \/ DoAssertShape

SpecManual == InitManual /\ [][NextManual]_vars

(***************************************************************************)
(* The first part of the analysis notebook, through the power-spectrum     *)
(* distance, run top to bottom on homogenized products whose power-        *)
(* spectrum fits (index beta, uncertainty sigma) are any of a small set.   *)
(***************************************************************************)
\* Indices -MaxSlope..0 and uncertainties 0..MaxSigma.
MaxSlope == 3
MaxSigma == 2

Fits == ((-MaxSlope)..0) \X (0..MaxSigma)

\* The source line of the heading that follows the power-spectrum distance.
RegionsSection == 423

\* The pixel grid of the smoothed Orion 12CO products.
SmoothedGrid == << CeilDiv(OrionGrid("12co")[1], 11), CeilDiv(OrionGrid("12co")[2], 11) >>

\* The files under data_path once the preprocessing has been run there: the
\* download and the products the first part of the analysis loads.
Homogenized(rel, f1, f2, axes) ==
    CASE rel = "Orion/CARMA_NRO_Orion_12co_smoothed46.fits" ->
            RawCube(OrionAxis, SmoothedGrid, 46)
      [] rel = "Orion/mom0_12co_pix_2_Tmb_smoothed46.fits" ->
            [RawMap(SmoothedGrid, {}, 46) EXCEPT !.fit = f1]
      [] rel = "Ophiuchus/OphA_12coFCRAO_F_map_sliced_withbeam.fits" ->
            [RawMap(<<GridH, GridW>>, OphMask12, 46) EXCEPT !.fit = f2]
      [] OTHER -> Download(rel, axes)

InitPSpec ==
    /\ InitKernel
    /\ home = "/Users/ekoch"
    /\ missing = {}
    /\ \E f1 \in Fits, f2 \in Fits :
          disk = [p \in Paths |->
                    Homogenized(p[2], f1, f2, [x \in {"12co", "13co"} |-> 3])]

StartPSpec ==
    /\ done["ana"] < Len(AnaCells)
    /\ AnaCells[done["ana"] + 1][1].line < RegionsSection
    /\ StartNext("ana")

NextPSpec ==
    \/ StartPSpec
    \/ DoImport
    \/ DoTryImport
    \/ DoUse
    \/ DoExpandUser
    \/ DoJoin
    \/ DoFitsOpen
    \/ DoRead
    \/ DoFromHdu
    \/ DoStat
    \/ DoRun
    \/ DoAttr

SpecPSpec == InitPSpec /\ [][NextPSpec]_vars

(***************************************************************************)
(* The analysis notebook run top to bottom in a fresh kernel, with every   *)
(* library installed and the homogenized products on disk.                 *)
(***************************************************************************)
InitAnalysis ==
    /\ InitKernel
    /\ home \in Homes
    /\ missing = {}
    /\ \E axes \in [{"12co", "13co"} -> {2, 3}] :
          disk = [p \in Paths |-> Homogenized(p[2], <<>>, <<>>, axes)]

NextAnalysis ==
    \/ StartNext("ana")
    \/ NameError
    \/ DoImport
    \/ DoTryImport
    \/ DoUse
    \/ DoExpandUser
    \/ DoJoin
    \/ DoFitsOpen
    \/ DoRead
    \/ DoFromHdu
    \/ DoIndex
    \/ DoReproject
    \/ DoStat
    \/ DoRun
    \/ DoAttr

SpecAnalysis == InitAnalysis /\ [][NextAnalysis]_vars

(***************************************************************************)
(* The trimming section of the preprocessing notebook run top to bottom on *)
(* Ophiuchus cubes whose pixel grid is that of the maps, or one column     *)
(* wider, or one row taller.                                               *)
(***************************************************************************)
CubeGrids == { <<GridH, GridW>>, <<GridH, GridW + 1>>, <<GridH + 1, GridW>> }

InitCubes ==
    /\ InitKernel
    /\ home = "/Users/ekoch"
    /\ missing = {}
    /\ \E g12 \in CubeGrids, g13 \in CubeGrids :
          disk = [p \in Paths |->
                    CASE p[2] = "orig/Ophiuchus/OphA_12coFCRAO_F_vxy.fits" ->
                            RawCube(OphAxis, g12, 0)
                      [] p[2] = "orig/Ophiuchus/OphA_13coFCRAO_F_vxy.fits" ->
                            RawCube(OphAxis, g13, 0)
                      [] OTHER -> Download(p[2], [x \in {"12co", "13co"} |-> 3])]

NextCubes ==
    \/ StartTrim
    \/ DoImport
    \/ DoUse
    \/ DoStr
    \/ DoRead
    \/ DoFromHdu
    \/ DoIndexBy
    \/ DoIsFinite
    \/ DoFindObjects
    \/ DoItem
    \/ DoWrite
    \/ DoAssertShape

SpecCubes == InitCubes /\ [][NextCubes]_vars

(***************************************************************************)
(* The preprocessing notebook run top to bottom, where the user may run    *)
(* the cell that has just finished once more before going on.              *)
(***************************************************************************)
RerunLast == \E c \in 1..Len(PreCells) : c = done["pre"] /\ Rerun("pre", c)

NextRerun ==
    \/ StartNext("pre")
    \/ RerunLast
    \/ DoImport
    \/ DoUse
    \/ DoStr
    \/ DoRead
    \/ DoFromHdu
    \/ DoIndexBy
    \/ DoIsFinite
    \/ DoFindObjects
    \/ DoItem
    \/ DoBeam
    \/ DoWithBeam
    \/ DoSlab
    \/ DoDown
    \/ DoConvolve
    \/ DoReproject
    \/ DoWrite
    \/ DoSetAttr
    \/ DoAssertShape

SpecRerun == InitManual /\ [][NextRerun]_vars

(***************************************************************************)
(* Properties.                                                             *)
(***************************************************************************)
\* The relative paths the preprocessing notebook has a cell write.
PreWritten == {st.rel : st \in {x \in AllStmts("pre") : x.op = "write"}}

\* The original-resolution Orion files the analysis loads.
OriginalResolution ==
    {"orig/Orion/CARMA_NRO_Orion_12co.fits",
     "Orion/mom0_12co_pix_2_Tmb.fits",
     "Orion/mom0_13co_pix_2_Tmb.fits"}

AnaReads == {r \in reads : r.nb = "ana"}

\* C1 as stated: every FITS file the analysis notebook loads is at a path
\* (relative to the data root) that a preprocessing cell writes.
C1_EveryLoadIsAProduct ==
    \A r \in AnaReads : r.path[2] \in PreWritten

\* C1, amended: every FITS file the analysis notebook loads is a product a
\* preprocessing cell writes to the same relative path, except the loads of
\* original-resolution Orion data, which no preprocessing cell writes.
C1_LoadsAreProductsOrOriginals ==
    \A r \in AnaReads :
        /\ (r.path[2] \in PreWritten) # (r.path[2] \in OriginalResolution)
        /\ r.path[2] \in RelPaths

\* The analysis has loaded a product that preprocessing wrote in this run,
\* and an original-resolution file.
C1_Witness ==
    /\ \E r \in AnaReads : \E w \in writes : w.nb = "pre" /\ w.path = r.path
    /\ \E r \in AnaReads : r.path[2] \in OriginalResolution

\* The four COMPLETE cubes and the raw cube each comes from.
CompleteCubes ==
    [x \in {"Ophiuchus/OphA_12coFCRAO_F_vxy_sliced_withbeam.fits",
            "Ophiuchus/OphA_13coFCRAO_F_vxy_sliced_withbeam.fits",
            "Perseus/PerA_12coFCRAO_F_vxy_sliced_withbeam.fits",
            "Perseus/PerA_13coFCRAO_F_vxy_sliced_withbeam.fits"} |->
        CASE x = "Ophiuchus/OphA_12coFCRAO_F_vxy_sliced_withbeam.fits" ->
                [raw |-> "orig/Ophiuchus/OphA_12coFCRAO_F_vxy.fits", lo |-> 0, hi |-> 8, trim |-> TRUE]
          [] x = "Ophiuchus/OphA_13coFCRAO_F_vxy_sliced_withbeam.fits" ->
                [raw |-> "orig/Ophiuchus/OphA_13coFCRAO_F_vxy.fits", lo |-> 0, hi |-> 8, trim |-> TRUE]
          [] x = "Perseus/PerA_12coFCRAO_F_vxy_sliced_withbeam.fits" ->
                [raw |-> "orig/Perseus/perA_12coFCRAO_F_vxy.fits", lo |-> -5, hi |-> 15, trim |-> FALSE]
          [] x = "Perseus/PerA_13coFCRAO_F_vxy_sliced_withbeam.fits" ->
                [raw |-> "orig/Perseus/perA_13coFCRAO_F_vxy.fits", lo |-> -5, hi |-> 15, trim |-> FALSE]]

\* attach the 46 arcsec beam, cut lo..hi km/s, downsample axis 0 by 2.
ThreeSteps(lo, hi) ==
    << Op("with_beam", <<46, 0, 0, 0>>, ""),
       Op("spectral_slab", <<lo, hi, 0, 0>>, ""),
       Op("downsample_axis", <<0, 2, 0, 0>>, "") >>

CubeWrites == {w \in writes : w.path[2] \in DOMAIN CompleteCubes}

\* C2 as stated: each COMPLETE cube written is the loaded cube with exactly
\* the three steps applied, in order.
C2_ExactlyThreeSteps ==
    \A w \in CubeWrites :
        LET c == CompleteCubes[w.path[2]]
        IN  /\ w.obj.path[2] = c.raw
            /\ w.obj.loader = "SpectralCube.read"
            /\ w.obj.ops = ThreeSteps(c.lo, c.hi)

\* C2, amended: under top-to-bottom execution each COMPLETE cube written is
\* the loaded cube with, for Ophiuchus, the spatial trim to this_slice first,
\* and then exactly: beam attached, velocity range cut, spectral axis
\* downsampled by 2; no cube is written before all of these were applied.
C2_TrimThenThreeSteps ==
    \A w \in CubeWrites :
        LET c == CompleteCubes[w.path[2]]
        IN  /\ w.obj.path[2] = c.raw
            /\ w.obj.loader = "SpectralCube.read"
            /\ IF c.trim
                 THEN /\ Len(w.obj.ops) = 4
                      /\ w.obj.ops[1].name = "slice"
                      /\ w.obj.ops[1].ref = "spatial"
                      /\ Tail(w.obj.ops) = ThreeSteps(c.lo, c.hi)
                 ELSE w.obj.ops = ThreeSteps(c.lo, c.hi)
            /\ w.obj.beam = 46
            /\ w.obj.vlo = c.lo /\ w.obj.vhi = c.hi

\* All four COMPLETE cubes have been written.
C2_Witness ==
    \A x \in DOMAIN CompleteCubes : \E w \in CubeWrites : w.path[2] = x

\* The first source line of the CARMA-NRO Orion section of the preprocessing
\* notebook: the writes above it are the products of the COMPLETE clouds.
OrionSection == 1167

CompleteWrites == {w \in writes : w.nb = "pre" /\ w.line < OrionSection}

BeamAttached(o) ==
    /\ o.beam = 46
    /\ \E i \in 1..Len(o.ops) : o.ops[i] = Op("with_beam", <<46, 0, 0, 0>>, "")

\* C3 as stated: every product written for a COMPLETE cloud has had the
\* 46 arcsec beam attached.
C3_EveryProductHasBeam ==
    \A w \in CompleteWrites : BeamAttached(w.obj)

\* C3, amended: every product written for a COMPLETE cloud has had the
\* 46 arcsec beam attached with with_beam(complete_beam) before it is
\* written, except the intermediate sliced 12CO Ophiuchus map
\* OphA_12coFCRAO_F_map_sliced.fits, which is written without a beam.
C3_ProductsHaveBeamButSlicedMap ==
    \A w \in CompleteWrites :
        IF w.path[2] = "Ophiuchus/OphA_12coFCRAO_F_map_sliced.fits"
          THEN w.obj.beam = 0 /\ \A i \in 1..Len(w.obj.ops) : w.obj.ops[i].name # "with_beam"
          ELSE BeamAttached(w.obj)

\* The sliced map and every product with a beam have been written.
C3_Witness ==
    \A x \in {st.rel : st \in {y \in AllStmts("pre") : y.op = "write" /\ y.line < OrionSection}} :
        \E w \in CompleteWrites : w.path[2] = x

\* The three smoothed Orion cubes and the raw cube each comes from.
OrionCubes ==
    [x \in {"Orion/CARMA_NRO_Orion_12co_smoothed46.fits",
            "Orion/CARMA_NRO_Orion_13co_smoothed46.fits",
            "Orion/CARMA_NRO_Orion_c18o_smoothed46.fits"} |->
        CASE x = "Orion/CARMA_NRO_Orion_12co_smoothed46.fits" -> [raw |-> "orig/Orion/CARMA_NRO_Orion_12co.fits", tracer |-> "12co"]
          [] x = "Orion/CARMA_NRO_Orion_13co_smoothed46.fits" -> [raw |-> "orig/Orion/CARMA_NRO_Orion_13co.fits", tracer |-> "13co"]
          [] x = "Orion/CARMA_NRO_Orion_c18o_smoothed46.fits" -> [raw |-> "orig/Orion/CARMA_NRO_Orion_c18o.fits", tracer |-> "c18o"]]

\* The three smoothed Orion maps, the raw map and the raw cube of the tracer.
OrionMaps ==
    [x \in {"Orion/mom0_12co_pix_2_Tmb_smoothed46.fits",
            "Orion/mom0_13co_pix_2_Tmb_smoothed46.fits",
            "Orion/mom0_c18o_pix_2_Tmb_smoothed46.fits"} |->
        CASE x = "Orion/mom0_12co_pix_2_Tmb_smoothed46.fits" ->
                [raw |-> "orig/Orion/mom0_12co_pix_2_Tmb.fits", cube |-> "orig/Orion/CARMA_NRO_Orion_12co.fits", tracer |-> "12co"]
          [] x = "Orion/mom0_13co_pix_2_Tmb_smoothed46.fits" ->
                [raw |-> "orig/Orion/mom0_13co_pix_2_Tmb.fits", cube |-> "orig/Orion/CARMA_NRO_Orion_13co.fits", tracer |-> "13co"]
          [] x = "Orion/mom0_c18o_pix_2_Tmb_smoothed46.fits" ->
                [raw |-> "orig/Orion/mom0_c18o_pix_2_Tmb.fits", cube |-> "orig/Orion/CARMA_NRO_Orion_c18o.fits", tracer |-> "c18o"]]

OrionCubeWrites == {w \in writes : w.path[2] \in DOMAIN OrionCubes}

OrionMapWrites == {w \in writes : w.path[2] \in DOMAIN OrionMaps}

\* C4: each Orion cube written is the loaded cube convolved to the 46 arcsec
\* beam and then downsampled by 11 along axis 1 and by 11 along axis 2, in
\* that order; its spectral axis (axis 0) is never downsampled.
C4_ConvolveThenDownsampleSpatial ==
    \A w \in OrionCubeWrites :
        /\ w.obj.path[2] = OrionCubes[w.path[2]].raw
        /\ w.obj.loader = "SpectralCube.read"
        /\ w.obj.ops = << Op("convolve_to", <<46, 0, 0, 0>>, ""),
                          Op("downsample_axis", <<1, 11, 0, 0>>, ""),
                          Op("downsample_axis", <<2, 11, 0, 0>>, "") >>
        /\ w.obj.beam = 46
        /\ LET g == OrionGrid(OrionCubes[w.path[2]].tracer)
           IN  w.obj.shape = << OrionAxis.nv, CeilDiv(g[1], 11), CeilDiv(g[2], 11) >>

\* The three smoothed Orion cubes have been written.
C4_Witness ==
    \A x \in DOMAIN OrionCubes : \E w \in OrionCubeWrites : w.path[2] = x

\* C5: each Orion moment-0 map written has been convolved to the 46 arcsec
\* beam and then reprojected onto the header of plane 0 of the downsampled
\* cube of the same tracer, which by then has been convolved and downsampled.
C5_ConvolveThenReprojectOnOwnCube ==
    \A w \in OrionMapWrites :
        LET m == OrionMaps[w.path[2]]
            g == OrionGrid(m.tracer)
            onto == << CeilDiv(g[1], 11), CeilDiv(g[2], 11) >>
        IN  /\ w.obj.path[2] = m.raw
            /\ Len(w.obj.ops) = 2
            /\ w.obj.ops[1] = Op("convolve_to", <<46, 0, 0, 0>>, "")
            /\ w.obj.ops[2].name = "reproject"
            /\ w.obj.ops[2].ref = m.cube
            /\ w.obj.shape = onto
            /\ w.obj.beam = 46

\* The three smoothed Orion maps have been written.
C5_Witness ==
    \A x \in DOMAIN OrionMaps : \E w \in OrionMapWrites : w.path[2] = x

\* C6 as stated: for every input map, the slice bound to this_slice (the
\* first element find_objects returns) is the bounding box of the largest
\* contiguous region of finite pixels of that map.
C6_FirstSliceIsLargest ==
    LET s == ns["pre"]["this_slice"]
    IN  Bound(s) =>
            LET f == disk[s.path]
                regions == Label(f.mask, f.shape[2])
            IN  \E i \in 1..Len(regions) :
                    /\ s.items[1] = BBox(regions[i])
                    /\ \A j \in 1..Len(regions) :
                           Cardinality(regions[j]) <= Cardinality(regions[i])

\* The original-resolution Orion moment-0 maps.
OrionMomentFiles ==
    {"orig/Orion/mom0_12co_pix_2_Tmb.fits",
     "orig/Orion/mom0_13co_pix_2_Tmb.fits",
     "orig/Orion/mom0_c18o_pix_2_Tmb.fits",
     "Orion/mom0_12co_pix_2_Tmb.fits",
     "Orion/mom0_13co_pix_2_Tmb.fits"}

\* The statement loads an Orion moment-0 map whose file has three axes.
LoadsThreeAxisMap(st) ==
    /\ st.op \in {"read", "from_hdu"}
    /\ st.rel \in OrionMomentFiles
    /\ \E p \in DOMAIN disk : p[2] = st.rel /\ Len(disk[p].shape) = 3

\* Cell c of notebook nb has been run and is over.
Finished(nb, c) == c <= done[nb] /\ ~(pc[1] = nb /\ pc[2] = c)

\* No cell after c loads an Orion moment-0 map into the name n.
LastLoadOf(nb, c, n) ==
    \A c2 \in (c + 1)..Len(Cells(nb)) : \A j \in 1..Len(Cells(nb)[c2]) :
        ~(LoadsThreeAxisMap(Cells(nb)[c2][j]) /\ n \in Cells(nb)[c2][j].tgt)

\* C7 as stated: once the last cell loading an Orion original-resolution
\* moment-0 map with the redundant spectral axis into a name is over, the
\* name is bound to the 2D image SpectralCube.read(...)[0] gives, in both
\* notebooks.
C7_OrionMapsViaSpectralCube ==
    \A nb \in NB : \A c \in 1..Len(Cells(nb)) : \A i \in 1..Len(Cells(nb)[c]) :
        LET st == Cells(nb)[c][i]
        IN  \A n \in st.tgt :
                (LoadsThreeAxisMap(st) /\ Finished(nb, c) /\ LastLoadOf(nb, c, n)) =>
                    /\ Bound(ns[nb][n])
                    /\ ns[nb][n].loader = "SpectralCube.read"
                    /\ Len(ns[nb][n].shape) = 2

DataKinds == {"cube", "proj"}

\* The cubes the preprocessing notebook sets allow_huge_operations on.
HugeCubes ==
    {"perA_cube_12co", "perA_cube_13co",
     "orion_cube_12co", "orion_cube_13co", "orion_cube_c18o"}

\* C8 as stated: a statement changes nothing of a cube or a map other than
\* binding the names it assigns; every data object a name it does not
\* assign holds stays exactly as it was.
C8_NoObjectChanges ==
    [][Running =>
          \A n \in NamesOf(pc[1]) \ Cur.tgt :
              ns[pc[1]][n].kind \in DataKinds => ns'[pc[1]][n] = ns[pc[1]][n]]_vars

\* C8, amended: once a cube or map has been loaded, no cell changes any
\* attribute or content of that object, except that allow_huge_operations
\* is set to True on the cubes perA_cube_12co, perA_cube_13co,
\* orion_cube_12co, orion_cube_13co and orion_cube_c18o by the statement
\* right after each is loaded; every transform only produces a new object
\* that is bound to a name.
C8_OnlyAllowHugeChanges ==
    [][Running =>
          \A n \in NamesOf(pc[1]) \ Cur.tgt :
              LET o == ns[pc[1]][n]
                  o2 == ns'[pc[1]][n]
              IN  o.kind \in DataKinds =>
                      /\ o2 = [o EXCEPT !.huge = o2.huge]
                      /\ o2.huge # o.huge =>
                            /\ pc[1] = "pre" /\ n \in HugeCubes
                            /\ o2.huge
                            /\ Cur.op = "setattr" /\ Cur.a = n
                            /\ pc[3] > 1
                            /\ Cells(pc[1])[pc[2]][pc[3] - 1].op = "read"
                            /\ Cells(pc[1])[pc[2]][pc[3] - 1].tgt = {n}
                            /\ o.ops = <<>>]_vars

\* A loaded cube has had allow_huge_operations set, a transform of it is
\* bound to another name, and the loaded cube is otherwise as loaded.
C8_Witness ==
    LET o == ns["pre"]["perA_cube_12co"]
        t == ns["pre"]["perA_cube_12co_sliced_wbeam"]
    IN  /\ Bound(o) /\ o.huge /\ o.ops = <<>> /\ o.beam = 0
        /\ Bound(t) /\ t.beam = 46 /\ Len(t.ops) = 3

\* The import check of the analysis notebook: try: import turbustat /
\* except ImportError: print(...).
ImportCheck == [nb |-> "ana", line |-> 120, exc |-> "ImportError"]

\* C9 as stated: no cell catches an exception; an exception a statement
\* raises ends the cell, so no statement of a cell runs after one.
C9_NothingCaught ==
    /\ handled = {}
    /\ Running => err[pc[1]] = ""

\* C9, amended: no cell implements error handling of its own except the
\* import check of the analysis notebook, which catches the ImportError of
\* "import turbustat" and prints a message, leaving turbustat unbound and
\* the cell running; every other exception propagates and aborts the cell,
\* and no cell substitutes a fallback or retries.
C9_OnlyImportCheckCaught ==
    /\ handled \subseteq {ImportCheck}
    /\ Running => err[pc[1]] = ""
    /\ handled # {} => ~Bound(ns["ana"]["turbustat"]) /\ "turbustat" \in missing
    /\ \A nb \in NB : err[nb] # "" => (pc[1] # nb /\ done[nb] > 0)

\* The import check has caught its ImportError, and a later exception has
\* aborted a cell of the same notebook.
C9_Witness ==
    /\ ImportCheck \in handled
    /\ err["ana"] # ""
    /\ pc = Idle
    /\ done["ana"] > 2

\* C10: once the 13CO Orion map has been reprojected onto the header of the
\* 12CO region-1 map, both have the 500 x 500 pixel grid of region 1, and
\* every PDF_Distance is given two maps of equal shape.
C10_SameGridForPdf ==
    LET a == ns["ana"]["orion_mom0_12co_region1"]
        b == ns["ana"]["orion_mom0_13co_region1"]
    IN  /\ Bound(b) =>
              /\ Bound(a)
              /\ b.shape = a.shape
              /\ b.shape = <<500, 500>>
              /\ b.path[2] = "Orion/mom0_13co_pix_2_Tmb.fits"
        /\ \A n \in NamesAna :
              (ns["ana"][n].kind = "stat" /\ ns["ana"][n].s = "PDF_Distance") =>
                  /\ Len(ns["ana"][n].items) = 2
                  /\ ns["ana"][n].items[1] = ns["ana"][n].items[2]

\* PDF_Distance has been given the two region-1 maps and has been run.
C10_Witness ==
    /\ Bound(ns["ana"]["orion_mom0_13co_region1"])
    /\ ns["ana"]["pdf_dist"].kind = "stat"
    /\ ns["ana"]["pdf_dist"].done
    /\ ns["ana"]["pdf_dist"].items = << <<500, 500>>, <<500, 500>> >>

\* The power-spectrum distance object of the analysis, once distance_metric
\* has run on it.
PSpecDone ==
    LET d == ns["ana"]["pspec_dist_orion_oph"]
    IN  d.kind = "stat" /\ d.done /\ Len(d.distance) = 2

\* C11: the power-spectrum distance |beta_1 - beta_2| / sqrt(sigma_1^2 +
\* sigma_2^2) is non-negative, is the same with the two data sets exchanged,
\* and is zero exactly when the two indices are equal, for all indices and
\* all uncertainties that are not both zero.
C11_PSpecDistanceAlgebra ==
    LET d == ns["ana"]["pspec_dist_orion_oph"]
    IN  (PSpecDone /\ d.distance[2] > 0) =>
            /\ d.distance[1] >= 0
            /\ d.distance = PSpecDistance(d.fit[2], d.fit[1])
            /\ (d.distance[1] = 0) <=> (d.fit[1][1] = d.fit[2][1])

\* The distance of two data sets with different indices and with
\* uncertainties that are not both zero has been computed and read.
C11_Witness ==
    LET d == ns["ana"]["pspec_dist_orion_oph"]
    IN  /\ PSpecDone
        /\ d.distance[2] > 0
        /\ d.fit[1][1] < d.fit[2][1]
        /\ done["ana"] = 13 /\ pc = Idle /\ err["ana"] = ""

\* C12 as stated: with every library installed and every input present, a
\* statement about to run reads only names that earlier statements have
\* bound.
C12_NamesBoundBeforeUse ==
    Running => \A n \in Cur.uses : Bound(ns[pc[1]][n])

\* The Ophiuchus maps, cubes and sliced cubes of the preprocessing notebook.
OphTracers ==
    { [map |-> "ophA_12co_mom0", cube |-> "cube_12co", sliced |-> "cube_12co_sliced",
       mapsliced |-> "ophA_12co_mom0_sliced"],
      [map |-> "ophA_13co_mom0", cube |-> "cube_13co", sliced |-> "cube_13co_sliced",
       mapsliced |-> "ophA_13co_mom0_sliced"] }

\* The assert statement about to run compares shapes that differ.
AssertFails ==
    /\ Running
    /\ Cur.op = "assert_shape"
    /\ \A n \in Cur.uses : Bound(Env[n])
    /\ Env[Cur.a].shape # Tail(Env[Cur.b].shape)

\* C13: an Ophiuchus cube is sliced only when the map's shape equals the
\* cube's spatial shape, after the assertion; when the shapes differ the
\* assertion stops the cell with AssertionError, no name is bound, and the
\* sliced-cube name stays unbound.
C13_SlicedOnlyAfterAssert ==
    /\ [](\A t \in OphTracers :
            LET m == ns["pre"][t.map]
                c == ns["pre"][t.cube]
                s == ns["pre"][t.sliced]
            IN  /\ Bound(s) => (Bound(m) /\ Bound(c) /\ m.shape = Tail(c.shape))
                /\ (Running /\ Cur.op = "index_by" /\ Cur.tgt = {t.sliced}) =>
                       (Bound(m) /\ Bound(c) /\ m.shape = Tail(c.shape)))
    /\ [][AssertFails =>
            /\ pc' = Idle
            /\ err'[pc[1]] = "AssertionError"
            /\ ns' = ns]_vars

\* The 12CO cube is wider or taller than the 12CO map: the cell has stopped
\* with AssertionError and cube_12co_sliced is not bound.
C13_Witness ==
    /\ pc = Idle
    /\ err["pre"] = "AssertionError"
    /\ Bound(ns["pre"]["cube_12co"])
    /\ ns["pre"]["ophA_12co_mom0"].shape # Tail(ns["pre"]["cube_12co"].shape)
    /\ ~Bound(ns["pre"]["cube_12co_sliced"])

\* The slice find_objects gives first for the finite pixels of the file at
\* path p: the one the notebook computes from a map loaded from p.
FirstSliceOf(p) ==
    FindObjects(Label(disk[p].mask, disk[p].shape[Len(disk[p].shape)]))[1]

\* C14: under top-to-bottom execution each Ophiuchus cube is cut with
\* exactly the slice computed from the moment-0 map of the same tracer, on
\* its two spatial axes, so that the sliced cube has the spatial shape of
\* the sliced map of that tracer and the spectral axis of the loaded cube.
C14_CubeCutWithOwnMapSlice ==
    \A t \in OphTracers :
        LET m == ns["pre"][t.map]
            ms == ns["pre"][t.mapsliced]
            c == ns["pre"][t.cube]
            s == ns["pre"][t.sliced]
        IN  Bound(s) =>
                /\ Bound(m) /\ Bound(c)
                /\ s.ops = << Op("slice", FirstSliceOf(m.path), "spatial") >>
                /\ s.path = c.path
                /\ s.shape[1] = c.shape[1]
                /\ s.vlo = c.vlo /\ s.vhi = c.vhi
                /\ Bound(ms) => (Tail(s.shape) = ms.shape /\ ms.ops = << Op("slice", FirstSliceOf(m.path), "spatial") >>)

\* Both Ophiuchus cubes have been cut, with slices that differ.
C14_Witness ==
    /\ \A t \in OphTracers : Bound(ns["pre"][t.sliced]) /\ Bound(ns["pre"][t.mapsliced])
    /\ ns["pre"]["cube_12co_sliced"].ops # ns["pre"]["cube_13co_sliced"].ops
    /\ Tail(ns["pre"]["cube_12co_sliced"].shape) # Tail(ns["pre"]["cube_12co"].shape)

\* The slicing step an object was cut with last, as <<y0, y1, x0, x1>>.
LastSlice(o) == o.ops[Len(o.ops)].n

\* Two pixel boxes <<y0, y1, x0, x1>> share a pixel.
Overlap(a, b) == a[1] < b[2] /\ b[1] < a[2] /\ a[3] < b[4] /\ b[3] < a[4]

Regions ==
    { [map |-> "orion_mom0_12co_region1", cube |-> "orion_12co_cube_region1",
       box |-> <<3000, 3500, 1300, 1800>>],
      [map |-> "orion_mom0_12co_region2", cube |-> "orion_12co_cube_region2",
       box |-> <<3750, 4250, 1800, 2300>>] }

\* C15: in the analysis notebook each region of the Orion 12CO cube is cut
\* with the pixel bounds its moment-0 map region was cut with
\* (y 3000:3500, x 1300:1800 and y 3750:4250, x 1800:2300), on the two
\* spatial axes; map and cube regions are 500 x 500 pixels, the cube
\* regions keep every channel of the cube, and the two boxes share no pixel.
C15_RegionsCutAlike ==
    /\ \A r \in Regions :
          LET m == ns["ana"][r.map]
              c == ns["ana"][r.cube]
              whole == ns["ana"]["orion_12co_cube"]
          IN  /\ Bound(m) => /\ LastSlice(m) = r.box
                             /\ m.ops[Len(m.ops)].ref = "spatial"
                             /\ m.shape = <<500, 500>>
              /\ Bound(c) => /\ Bound(m)
                             /\ c.ops = << Op("slice", LastSlice(m), "spatial") >>
                             /\ c.path[2] = "orig/Orion/CARMA_NRO_Orion_12co.fits"
                             /\ Tail(c.shape) = <<500, 500>>
                             /\ c.shape[1] = whole.shape[1]
                             /\ c.shape[1] = OrionAxis.nv
                             /\ c.vlo = whole.vlo /\ c.vhi = whole.vhi
    /\ \A r1, r2 \in Regions :
          (Bound(ns["ana"][r1.cube]) /\ Bound(ns["ana"][r2.cube]) /\ r1 # r2)
             => ~Overlap(LastSlice(ns["ana"][r1.cube]), LastSlice(ns["ana"][r2.cube]))

\* Both map regions and both cube regions have been cut.
C15_Witness ==
    \A r \in Regions : Bound(ns["ana"][r.map]) /\ Bound(ns["ana"][r.cube])

\* The attributes holding a distance, and those among them that exist only
\* on a PDF_Distance working on normalized data.
DistanceAttrs ==
    {"distance", "lognormal_distance", "hellinger_distance", "ks_distance"}
NormalizedOnly == {"hellinger_distance", "ks_distance"}

\* The next statement reads a distance from a name that is bound.
ReadsDistance ==
    /\ Running
    /\ Cur.op = "attr"
    /\ Cur.s \in DistanceAttrs
    /\ Bound(Env[Cur.a])

\* C16: whenever the notebooks, run top to bottom, read a distance
\* attribute, distance_metric has already run on the statistic currently
\* bound to the name read, so the read never raises AttributeError; and the
\* Hellinger and Kolmogorov-Smirnov distances are read from a PDF_Distance
\* built with normalization_type='normalize_by_mean'.
C16_DistanceReadAfterMetric ==
    /\ [](ReadsDistance =>
            /\ Env[Cur.a].kind = "stat"
            /\ Env[Cur.a].done
            /\ Cur.s \in NormalizedOnly =>
                  /\ Env[Cur.a].s = "PDF_Distance"
                  /\ Env[Cur.a].opt = "normalize_by_mean")
    /\ [][ReadsDistance => /\ pc' = <<pc[1], pc[2], pc[3] + 1>> \/ pc' = Idle
                           /\ err' = err]_vars

\* The Hellinger distance has been read and the K-S distance is read next.
C16_Witness ==
    /\ ReadsDistance
    /\ Cur.line = 753
    /\ Env[Cur.a].done
    /\ Env[Cur.a].opt = "normalize_by_mean"

\* The data roots the two notebooks have bound to data_path.
PreRoot == ns["pre"]["data_path"].path[1]
AnaRoot == ns["ana"]["data_path"].path[1]
BothRoots == Bound(ns["pre"]["data_path"]) /\ Bound(ns["ana"]["data_path"])

\* C17 as stated: both notebooks use the same data root, whatever the home
\* directory of the account, so every product is written by preprocessing
\* to the absolute path the analysis reads it from.
C17_SameDataRoot ==
    BothRoots =>
        /\ PreRoot = AnaRoot
        /\ \A w \in writes : w.nb = "pre" => w.path = <<AnaRoot, w.path[2]>>

\* C17, amended: preprocessing uses the literal root
\* /Users/ekoch/storage/ISM_School_LocalClouds/ and analysis the folder
\* storage/ISM_School_LocalClouds/ of the home directory of the account, so
\* the roots, and the absolute paths of the products, agree exactly when the
\* home directory is /Users/ekoch.
C17_SameDataRootAtOneHome ==
    /\ Bound(ns["pre"]["data_path"]) => PreRoot = "/Users/ekoch/storage/ISM_School_LocalClouds/"
    /\ Bound(ns["ana"]["data_path"]) => AnaRoot = home \o "/storage/ISM_School_LocalClouds/"
    /\ BothRoots =>
          /\ (PreRoot = AnaRoot) <=> (home = "/Users/ekoch")
          /\ \A w \in writes : w.nb = "pre" =>
                /\ w.path[1] = PreRoot
                /\ (w.path = <<AnaRoot, w.path[2]>>) <=> (home = "/Users/ekoch")

\* On an account with another home directory preprocessing has written a
\* product and the analysis has bound its data root.
C17_Witness ==
    /\ BothRoots
    /\ home # "/Users/ekoch"
    /\ \E w \in writes : w.nb = "pre"

\* How many times an object was downsampled.
Downsamplings(o) == Len(SelectSeq(o.ops, LAMBDA op : op.name = "downsample_axis"))

\* C18: when a preprocessing cell is run again right after it has run, each
\* of its write statements writes the object it wrote the first time, and
\* every COMPLETE cube written was downsampled once, by 2, after one
\* velocity cut.
C18_RerunLeavesResultsEqual ==
    /\ \A w1, w2 \in writes : w1.line = w2.line => w1.obj = w2.obj
    /\ \A w \in CubeWrites :
          /\ Downsamplings(w.obj) = 1
          /\ w.obj.ops[Len(w.obj.ops)] = Op("downsample_axis", <<0, 2, 0, 0>>, "")

\* The moment-0 map file each sliced Ophiuchus cube is to be trimmed by.
OwnMapFile ==
    [n \in {"cube_12co_sliced", "cube_13co_sliced"} |->
        IF n = "cube_12co_sliced" THEN "orig/Ophiuchus/OphA_12coFCRAO_F_map.fits"
                                  ELSE "orig/Ophiuchus/OphA_13coFCRAO_F_map.fits"]

\* C19: in a manual session in which a cell is run only after every cell
\* above it has run, and cells may be run again, cube_12co_sliced is cut
\* with the slice of the 12CO moment-0 map and cube_13co_sliced with the
\* slice of the 13CO moment-0 map.
C19_EachCubeCutByOwnTracer ==
    \A n \in DOMAIN OwnMapFile :
        LET s == ns["pre"][n]
        IN  Bound(s) => LastSlice(s) = FirstSliceOf(<<s.path[1], OwnMapFile[n]>>)

\* A path relative to the data root that lies in its orig/ folder.
UnderOrig(rel) == Len(rel) >= 5 /\ SubSeq(rel, 1, 5) = "orig/"

\* C20: every file the preprocessing notebook reads lies under orig/ of
\* its data root, no cell of either notebook writes under orig/, the
\* analysis notebook writes no file, and every file under orig/ stays as
\* downloaded.
C20_RawInputsUntouched ==
    /\ \A r \in reads : r.nb = "pre" =>
          /\ UnderOrig(r.path[2])
          /\ r.path[1] = PreRoot
    /\ \A w \in writes : w.nb = "pre" /\ ~UnderOrig(w.path[2])
    /\ \A p \in DOMAIN disk :
          UnderOrig(p[2]) => disk[p] = Download(p[2], [t \in {"12co", "13co"} |-> 3])

\* Both notebooks have run to their ends, preprocessing has read and
\* written files and the analysis has read files.
C20_Witness ==
    /\ pc = Idle
    /\ done["pre"] = Len(PreCells) /\ done["ana"] = Len(AnaCells)
    /\ \E r \in reads : r.nb = "pre"
    /\ \E r \in reads : r.nb = "ana"
    /\ \E w \in writes : UnderOrig(w.obj.path[2])

====
